--------------------------- MODULE MCInputSwitch ---------------------------
(* Two functions in overlapping groups that either guest may be given, one *)
(* GPU, two configurations of a network card with the same MAC address,    *)
(* and the input controller, whose window is the first function's too.     *)
EXTENDS InputSwitch

Device(g, f, b, q, w) ==
  [kind |-> "device", guest |-> g, fns |-> <<f>>, bars |-> b, streams |-> q,
   window |-> w, keys |-> <<>>]

MCRequests ==
  {Device(g, "d1", <<"d1a", "d1b">>, <<1>>, "w1") : g \in GuestId}
  \cup {Device(g, "d2", <<"d2a">>, <<0, 1>>, "w2") : g \in GuestId}
  \cup {Device("Android", "d3", <<>>, <<0, 9>>, "w2")}
  \cup {[kind |-> "gpu", guest |-> "Android", fns |-> <<"gpu0", "gpu1">>,
         bars |-> <<"gpu0a", "gpu1a">>, streams |-> <<2, 9>>, window |-> "w3",
         keys |-> <<"gpu0", "gpu1">>],
        [kind |-> "gpu", guest |-> "Android", fns |-> <<"gpu0", "gpu1">>,
         bars |-> <<>>, streams |-> <<2, 3>>, window |-> "w3",
         keys |-> <<"gpu0", "gpu1">>],
        [kind |-> "nic", guest |-> "Android", fns |-> <<"nic0">>,
         bars |-> <<"nic0a">>, streams |-> <<4, 5>>, window |-> "w4",
         keys |-> <<"mac">>],
        [kind |-> "nic", guest |-> "Android", fns |-> <<"nic1">>,
         bars |-> <<"nic1a">>, streams |-> <<4, 5>>, window |-> "w5",
         keys |-> <<"mac">>],
        [kind |-> "usb", guest |-> "Android", fns |-> <<"xhci">>,
         bars |-> <<"xhcia">>, streams |-> <<6, 7>>, window |-> "w1",
         keys |-> <<"xhci">>]}
=============================================================================
