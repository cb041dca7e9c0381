---------------------------- MODULE LogDelivery ----------------------------
(***************************************************************************)
(* What spotflowd promises about the log entries it takes in, without how: *)
(* LogPipeline is shown to implement this module.                          *)
(*                                                                         *)
(* An entry is new until a source hands it to the daemon; then it is held  *)
(* in RAM, durable on disk, delivered to the MQTT client, given up for a   *)
(* reason the daemon knows (evicted, or a failed file operation), or lost. *)
(* Only the end of the process, and the moments before it, lose anything,  *)
(* and never what is durable.                                              *)
(***************************************************************************)
EXTENDS Naturals

CONSTANT MaxEntries   (* bound: entries the sources produce *)

VARIABLES
    place,   (* entry -> where it is                                       *)
    phase    (* of the process: running, signalled, down                   *)

vars == <<place, phase>>

Entries == 1 .. MaxEntries

Places == {"new", "volatile", "durable", "delivered", "givenUp", "lost"}

(* Any number of entries change their places, each in a permitted way.     *)
Moves(permitted) ==
    LET before == place
        after  == place'
    IN  /\ DOMAIN after = Entries
        /\ \A e \in Entries :
              after[e] # before[e] => <<before[e], after[e]>> \in permitted

Up == phase # "down"

(* The sources hand over an entry, one after the other.                    *)
Accept ==
    /\ Up
    /\ UNCHANGED phase
    /\ LET before == place
           after  == place'
       IN  \E e \in Entries :
              /\ before[e] = "new"
              /\ \A f \in Entries : f < e => before[f] # "new"
              /\ after = [before EXCEPT ![e] = "volatile"]

(* The client takes entries, from RAM or from disk.                        *)
Deliver ==
    /\ Up
    /\ UNCHANGED phase
    /\ Moves({<<"volatile", "delivered">>, <<"durable", "delivered">>})

(* A chunk file appears.                                                   *)
Store ==
    /\ Up
    /\ UNCHANGED phase
    /\ Moves({<<"volatile", "durable">>})

(* A chunk file disappears: its entries are given up, or still in RAM.     *)
Remove ==
    /\ Up
    /\ UNCHANGED phase
    /\ Moves({<<"durable", "givenUp">>, <<"durable", "volatile">>})

(* Entries in RAM could not be written, or were a copy of an evicted file. *)
GiveUp ==
    /\ Up
    /\ UNCHANGED phase
    /\ Moves({<<"volatile", "givenUp">>})

Signal ==
    /\ phase = "running"
    /\ phase' = "signalled"
    /\ UNCHANGED place

(* On the way down a task ends with what it holds.                         *)
Abandon ==
    /\ phase = "signalled"
    /\ UNCHANGED phase
    /\ Moves({<<"volatile", "lost">>, <<"volatile", "givenUp">>})

(* The process ends, by itself or not: RAM is gone.                        *)
End ==
    /\ Up
    /\ phase' = "down"
    /\ Moves({<<"volatile", "lost">>, <<"volatile", "givenUp">>})
    /\ \A e \in Entries : place'[e] # "volatile"

Start ==
    /\ phase = "down"
    /\ phase' = "running"
    /\ UNCHANGED place

Init ==
    /\ place = [e \in Entries |-> "new"]
    /\ phase = "running"

Next == \/ Accept \/ Deliver \/ Store \/ Remove \/ GiveUp
        \/ Signal \/ Abandon \/ End \/ Start

Spec == Init /\ [][Next]_vars
=============================================================================
