---------------------------- MODULE MCScanCache -----------------------------
(***************************************************************************)
(* ScanCache for three contents of a file.  The first two have one stamp   *)
(* and differ in their index; the last two have one index.  One scores     *)
(* exactly the block threshold, one is above it only because of its        *)
(* signature match and its certificate, one because of the last two        *)
(* stages.                                                                 *)
(***************************************************************************)
EXTENDS ScanCache

MCVersion ==
  { [stamp |-> 1, index |-> 1,
     findings |-> [sig |-> 0, trust |-> "unsigned",
                   pe |-> [ml |-> TRUE, packed |-> FALSE, entropy |-> FALSE,
                           rwx |-> TRUE, imports |-> "many"]]],
    [stamp |-> 1, index |-> 2,
     findings |-> [sig |-> 0, trust |-> "trusted",
                   pe |-> [ml |-> TRUE, packed |-> TRUE, entropy |-> TRUE,
                           rwx |-> TRUE, imports |-> "few"]]],
    [stamp |-> 2, index |-> 2,
     findings |-> [sig |-> 80, trust |-> "untrusted", pe |-> Unparsed]] }
=============================================================================
