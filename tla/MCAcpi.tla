-------------------------------- MODULE MCAcpi ---------------------------------
(* Valid and invalid sets of tables, for no, one, three, most and too many *)
(* processors, in buffers that hold all tables, some or exactly the small  *)
(* ones.  The CPU interfaces name no redistributors, or others than the    *)
(* range entry does.                                                       *)
EXTENDS AcpiTables

MCAcpiSets ==
  [cpus : {0, 1, 3, 16, 17}, version : {3, 5},
   timer : {<<29, 30, 27, 26>>, <<29, 30, 27, 32>>}, gicd : {<<8, 0>>},
   gicr : {<<10, 0>>}, gicrLen : {8}, its : {<<9, 0>>}, maint : {0, 25, 27},
   giccGicr : {Zero64, <<12, 0>>}, buffer : {700, 848, 5000}]
===============================================================================
