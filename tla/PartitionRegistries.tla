--------------------------- MODULE PartitionRegistries ---------------------------
(***************************************************************************)
(* The records of what belongs to which guest: NetworkPartitionState       *)
(* (network.rs), StoragePartitionState (storage.rs), GpuPartitionState     *)
(* (gpu.rs) and WindowsPartitionState (windows.rs).  They are filled in at *)
(* boot by a caller the repository leaves open (external): here any call   *)
(* in any order.  A call that is refused changes nothing, except where the *)
(* code has done its first half by then.                                   *)
(*                                                                         *)
(* The four do not see each other; `which` tells the one a behaviour is    *)
(* about.                                                                  *)
(***************************************************************************)
EXTENDS Naturals, Sequences, SequencesExt

CONSTANTS
  Macs, Vfs, Nsids, Controllers,
  NicAddrs, \* PCIe addresses of network functions
  MAX_INTERFACES, MAX_NIC_VFS, MAX_NS_COUNT, MAX_NVME_VFS, MAX_VFCOUNT

(* A bridge takes two places of the list.                                  *)
ASSUME RegistriesAssumption == MAX_INTERFACES \in Nat \ {0, 1}

VARIABLES
  which,
  nic,      \* network: mode, SR-IOV state, bridge, interfaces
  storage,  \* storage: capabilities, SR-IOV state, namespaces
  gpu,      \* GPU: MaxVFs, SR-IOV enabled, VFs
  windows   \* Windows: configuration, running

regVars == <<which, nic, storage, gpu, windows>>

Guests == {"Android", "Windows"}
Nobody == "nobody"
InvalidNsid == 0

(* The first entry that matches, as every find of the code.                *)
FirstWith(list, Test(_)) ==
  LET i == SelectInSeq(list, Test) IN IF i = 0 THEN << >> ELSE <<list[i]>>
OwnerIn(list, Test(_)) ==
  IF FirstWith(list, Test) = << >> THEN Nobody ELSE FirstWith(list, Test)[1].guest

NoWindows == [set |-> FALSE, valid |-> FALSE, hyperv |-> FALSE]

RegistriesInit ==
  /\ which \in {"network", "storage", "gpu", "windows"}
  /\ nic = [mode |-> "none", probed |-> FALSE, vfs |-> << >>, bridge |-> << >>, ifs |-> << >>]
  /\ storage = [caps |-> "none", sriov |-> FALSE, vfs |-> << >>, ns |-> << >>]
  /\ gpu = [max |-> 0, enabled |-> FALSE, vfs |-> << >>]
  /\ windows = [config |-> NoWindows, running |-> FALSE]

(* --------------------------------- network --------------------------------- *)

InNic == which = "network" /\ UNCHANGED <<which, storage, gpu, windows>>

Interface(kind, addr, mac, guest) == [kind |-> kind, addr |-> addr, mac |-> mac, guest |-> guest]

(* Mutant: the registry of MAC addresses is filled but not searched.       *)
NotSearched(ifs, i) == Len(ifs) < MAX_INTERFACES

(* MacRegistry and the interface list are appended to together.  Only the  *)
(* MAC address is looked for, not the function's address.                  *)
CanRegister(ifs, i) ==
  /\ Len(ifs) < MAX_INTERFACES
  /\ \A k \in DOMAIN ifs : ifs[k].mac # i.mac

Register(ifs, i) == IF CanRegister(ifs, i) THEN Append(ifs, i) ELSE ifs

probe_sr_iov(max_vfs) ==
  /\ InNic /\ nic.mode = "none" /\ max_vfs > 0
  /\ nic' = [nic EXCEPT !.probed = TRUE, !.vfs = << >>]

enable_sr_iov ==
  /\ InNic /\ nic.mode = "none" /\ nic.probed
  /\ nic' = [nic EXCEPT !.mode = "SrIov"]

(* The VF is recorded before its MAC is looked at.                         *)
assign_sr_iov_vf(addr, mac, guest) ==
  LET i == Interface("vf", addr, mac, guest) IN
  /\ InNic /\ nic.mode = "SrIov" /\ nic.probed
  /\ Len(nic.vfs) < MAX_NIC_VFS
  /\ nic' = [nic EXCEPT !.vfs = Append(@, i), !.ifs = Register(@, i)]

assign_dedicated(addr, mac, guest) ==
  LET i == Interface("physical", addr, mac, guest) IN
  /\ InNic /\ nic.mode \in {"DedicatedAdapter", "none"}
  /\ CanRegister(nic.ifs, i)
  /\ nic' = [nic EXCEPT !.ifs = Register(@, i), !.mode = "DedicatedAdapter"]

ValidBridge(b) == b.owner # b.tunnel /\ b.owner_mac # b.tunnel_mac
Bridges ==
  [addr : NicAddrs, owner : Guests, owner_mac : Macs, tunnel : Guests, tunnel_mac : Macs]

(* The owner's face first; if the tunnel's is refused the owner's stays.   *)
(* The tunnel's has no address of its own.                                 *)
configure_bridge(b) ==
  LET owner == Interface("physical", b.addr, b.owner_mac, b.owner)
      tunnel == Interface("tunnel", Nobody, b.tunnel_mac, b.tunnel)
      first == Register(nic.ifs, owner)
  IN /\ InNic /\ nic.mode = "none" /\ ValidBridge(b)
     /\ CanRegister(nic.ifs, owner)
     /\ nic' = IF CanRegister(first, tunnel)
               THEN [nic EXCEPT !.ifs = Register(first, tunnel), !.bridge = <<b>>, !.mode = "ParavirtBridge"]
               ELSE [nic EXCEPT !.ifs = first]

(* --------------------------------- storage --------------------------------- *)

InNvme == which = "storage" /\ UNCHANGED <<which, nic, gpu, windows>>

load_caps(caps) ==
  /\ InNvme
  /\ storage' = [storage EXCEPT !.caps = caps]

(* A number that is already there is recorded a second time.               *)
create_ns(nsid) ==
  /\ InNvme /\ storage.caps \in {"management", "sriov"}
  /\ nsid # InvalidNsid /\ Len(storage.ns) < MAX_NS_COUNT
  /\ storage' = [storage EXCEPT !.ns = Append(@, [nsid |-> nsid, guest |-> Nobody, controller |-> Nobody])]

nvme_enable_sr_iov ==
  /\ InNvme /\ ~ storage.sriov /\ storage.caps = "sriov"
  /\ storage' = [storage EXCEPT !.sriov = TRUE]

(* No record is searched: a controller may be recorded for both guests.    *)
nvme_assign_vf(controller, guest) ==
  /\ InNvme /\ storage.sriov /\ Len(storage.vfs) < MAX_NVME_VFS
  /\ storage' = [storage EXCEPT !.vfs = Append(@, [controller |-> controller, guest |-> guest])]

ControllerOf(guest) ==
  LET vf == FirstWith(storage.vfs, LAMBDA v : v.guest = guest)
  IN IF storage.sriov /\ vf # << >> THEN vf[1].controller ELSE Nobody

attach_ns(nsid, guest) ==
  LET at == SelectInSeq(storage.ns, LAMBDA n : n.nsid = nsid) IN
  /\ InNvme /\ at # 0 /\ storage.ns[at].guest = Nobody
  /\ storage' = [storage EXCEPT !.ns[at].guest = guest, !.ns[at].controller = ControllerOf(guest)]

(* ----------------------------------- GPU ----------------------------------- *)

InGpu == which = "gpu" /\ UNCHANGED <<which, nic, storage, windows>>

set_capability(max_vfs) ==
  /\ InGpu /\ ~ gpu.enabled
  /\ gpu' = [gpu EXCEPT !.max = max_vfs]

gpu_enable_sr_iov ==
  /\ InGpu /\ ~ gpu.enabled /\ gpu.max > 0
  /\ gpu' = [gpu EXCEPT !.enabled = TRUE]

(* The capability's MaxVFs is not compared.                                *)
gpu_assign_vf(vf, guest) ==
  /\ InGpu /\ gpu.enabled /\ Len(gpu.vfs) < MAX_VFCOUNT
  /\ \A k \in DOMAIN gpu.vfs : gpu.vfs[k].vf # vf
  /\ gpu' = [gpu EXCEPT !.vfs = Append(@, [vf |-> vf, guest |-> guest])]

(* --------------------------------- Windows --------------------------------- *)

InWindows == which = "windows" /\ UNCHANGED <<which, nic, storage, gpu>>

(* Cores, memory, the Secure Boot chain and room for a crash dump.         *)
WindowsConfigs ==
  [cores : BOOLEAN, memory : BOOLEAN, secureBoot : BOOLEAN, dump : BOOLEAN, hyperv : BOOLEAN]
WindowsValid(c) == c.cores /\ c.memory /\ c.secureBoot /\ c.dump

configure(c) ==
  /\ InWindows /\ WindowsValid(c)
  /\ windows' = [windows EXCEPT !.config = [set |-> TRUE, valid |-> WindowsValid(c), hyperv |-> c.hyperv]]

mark_running ==
  /\ InWindows /\ windows.config.set
  /\ windows' = [windows EXCEPT !.running = TRUE]

(* Vendor and interface as CPUID gives them: neutral without a             *)
(* configuration.                                                          *)
handle_cpuid == IF windows.config.set /\ windows.config.hyperv THEN "Hv#1" ELSE "neutral"

RegistriesNext ==
  \/ \E n \in {0, 2} : probe_sr_iov(n) \/ set_capability(n)
  \/ enable_sr_iov
  \/ \E a \in NicAddrs, m \in Macs, g \in Guests :
       assign_sr_iov_vf(a, m, g) \/ assign_dedicated(a, m, g)
  \/ \E b \in Bridges : configure_bridge(b)
  \/ \E c \in {"bare", "management", "sriov"} : load_caps(c)
  \/ \E n \in Nsids \cup {InvalidNsid} : create_ns(n)
  \/ nvme_enable_sr_iov
  \/ \E c \in Controllers, g \in Guests : nvme_assign_vf(c, g)
  \/ \E n \in Nsids, g \in Guests : attach_ns(n, g)
  \/ gpu_enable_sr_iov
  \/ \E v \in Vfs, g \in Guests : gpu_assign_vf(v, g)
  \/ \E c \in WindowsConfigs : configure(c)
  \/ mark_running

RegistriesSpec == RegistriesInit /\ [][RegistriesNext]_regVars

-------------------------------------------------------------------------------

interface_for_guest(guest) == FirstWith(nic.ifs, LAMBDA i : i.guest = guest)
ns_owner(nsid) == OwnerIn(storage.ns, LAMBDA n : n.nsid = nsid)
query_owner(vf) == OwnerIn(gpu.vfs, LAMBDA v : v.vf = vf)
MacOwner(mac) == OwnerIn(nic.ifs, LAMBDA i : i.mac = mac)

(* What the registries compare has one owner: a MAC address, a GPU VF and  *)
(* a namespace, whose number may be recorded twice.  The interfaces are    *)
(* those of the mode that was chosen, and a bridge joins two different     *)
(* guests; a namespace is attached through a controller of its own guest;  *)
(* Windows runs only on a valid configuration.                             *)
(* The hardware behind a record is not compared.  One adapter may be given *)
(* to both guests under two MAC addresses, against network.rs:192 and 207  *)
(* ("Guest exclusively assigned this adapter"), and one NVMe controller to *)
(* both guests, against storage.rs:282: the caller must keep these apart.  *)
SoleOwner ==
  /\ \A i, k \in DOMAIN nic.ifs : nic.ifs[i].mac = nic.ifs[k].mac => i = k
  /\ \A i, k \in DOMAIN storage.ns :
       storage.ns[i].nsid = storage.ns[k].nsid /\ Nobody \notin {storage.ns[i].guest, storage.ns[k].guest} => i = k
  /\ \A i, k \in DOMAIN gpu.vfs : gpu.vfs[i].vf = gpu.vfs[k].vf => i = k
  /\ {nic.ifs[i].kind : i \in DOMAIN nic.ifs} \subseteq
       CASE nic.mode = "none" -> {} [] nic.mode = "SrIov" -> {"vf"}
         [] nic.mode = "DedicatedAdapter" -> {"physical"} [] OTHER -> {"physical", "tunnel"}
  /\ nic.bridge # << >> =>
       Len(nic.ifs) = 2 /\ nic.ifs[1].kind = "physical" /\ nic.ifs[2].kind = "tunnel"
         /\ nic.ifs[1].guest # nic.ifs[2].guest
  /\ \A i \in DOMAIN storage.ns : storage.ns[i].controller # Nobody =>
       \E k \in DOMAIN storage.vfs : storage.vfs[k].guest = storage.ns[i].guest
                                    /\ storage.vfs[k].controller = storage.ns[i].controller
  /\ windows.running => windows.config.valid

(* What a record gives a guest stays with it whatever is called later: the *)
(* owner of a MAC address, of a GPU VF and of a namespace never changes    *)
(* once there is one, the first interface of a guest stays its interface,  *)
(* address included, and the network mode is chosen once; and every step   *)
(* leads to a state in which SoleOwner holds.                              *)
OwnersFinal ==
  [][/\ SoleOwner'
     /\ \A m \in Macs : MacOwner(m) # Nobody => MacOwner(m)' = MacOwner(m)
     /\ \A n \in Nsids : ns_owner(n) # Nobody => ns_owner(n)' = ns_owner(n)
     /\ \A v \in Vfs : query_owner(v) # Nobody => query_owner(v)' = query_owner(v)
     /\ \A g \in Guests : interface_for_guest(g) # << >> => interface_for_guest(g)' = interface_for_guest(g)
     /\ nic.mode # "none" => nic'.mode = nic.mode]_regVars
===============================================================================
