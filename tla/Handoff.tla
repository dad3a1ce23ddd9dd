------------------------------- MODULE Handoff -------------------------------
(***************************************************************************)
(* What DispatcherThread promises to the views that use it, with threads,  *)
(* program counters and the pipe of Glib::Dispatcher left out: a producer  *)
(* publishes what it wrote into a slot that holds one publication at a     *)
(* time; the consumer (the GTK main loop) takes it; nobody publishes again *)
(* before the consumer has released the slot, and a producer does not      *)
(* write while its own publication waits or is being consumed.             *)
(***************************************************************************)
CONSTANTS Producers,  \* whoever writes and publishes
          Nobody      \* the owner of a free slot

VARIABLES stage,      \* what the slot is being used for
          owner,      \* the producer that occupies the slot
          writing     \* the producers that are writing

vars == <<stage, owner, writing>>

Stages == {"free", "held", "posted", "consuming"}

TypeOK == /\ stage \in Stages
          /\ owner \in Producers \cup {Nobody}
          /\ writing \subseteq Producers

Init == /\ stage = "free"
        /\ owner = Nobody
        /\ writing = {}

Acquire(p) == /\ stage = "free"
              /\ p \notin writing
              /\ stage' = "held"
              /\ owner' = p
              /\ UNCHANGED writing

\* The slot was acquired only to wait for the previous publication to be over.
BeginWriting(p) == /\ stage = "held"
                   /\ owner = p
                   /\ stage' = "free"
                   /\ owner' = Nobody
                   /\ writing' = writing \cup {p}

EndWriting(p) == /\ p \in writing
                 /\ writing' = writing \ {p}
                 /\ UNCHANGED <<stage, owner>>

Publish(p) == /\ stage = "held"
              /\ owner = p
              /\ stage' = "posted"
              /\ UNCHANGED <<owner, writing>>

Consume == /\ stage = "posted"
           /\ stage' = "consuming"
           /\ UNCHANGED <<owner, writing>>

Release == /\ stage = "consuming"
           /\ stage' = "free"
           /\ owner' = Nobody
           /\ UNCHANGED writing

Next == \/ \E p \in Producers : \/ Acquire(p)
                                \/ BeginWriting(p)
                                \/ EndWriting(p)
                                \/ Publish(p)
        \/ Consume
        \/ Release

Spec == Init /\ [][Next]_vars
=============================================================================
