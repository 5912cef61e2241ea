--------------------------- MODULE ReadersWriters ---------------------------
(***************************************************************************)
(* What a readers-writers lock promises: at any time either any number of  *)
(* readers or one writer is inside.                                        *)
(***************************************************************************)
CONSTANT Thread

VARIABLES readers, writers

Init == readers = {} /\ writers = {}

EnterReader(t) ==
  /\ writers = {}
  /\ readers' = readers \cup {t}
  /\ UNCHANGED writers

EnterWriter(t) ==
  /\ writers = {} /\ readers = {}
  /\ writers' = {t}
  /\ UNCHANGED readers

Leave(t) ==
  /\ t \in readers \cup writers
  /\ readers' = readers \ {t}
  /\ writers' = writers \ {t}

Next == \E t \in Thread : EnterReader(t) \/ EnterWriter(t) \/ Leave(t)

Spec == Init /\ [][Next]_<<readers, writers>>
=============================================================================
