---------------------------- MODULE CommandGate ----------------------------
(***************************************************************************)
(* What the command registry promises, without its goroutines: every key   *)
(* has a gate.  One command at a time passes an open gate.  A command that *)
(* was answered leaves the gate open; one that was not closes it until an  *)
(* operator has attested that command and a cooling time has passed.       *)
(***************************************************************************)
EXTENDS Naturals

CONSTANTS Keys, Quarantine

VARIABLES clock, lastTx, gate

Open == [phase |-> "open", tx |-> 0, until |-> 0]
Busy(t) == [phase |-> "busy", tx |-> t, until |-> 0]
Suspect(t) == [phase |-> "ambiguous", tx |-> t, until |-> 0]
Cooling(u) == [phase |-> "cooling", tx |-> 0, until |-> u]

Init ==
    /\ clock = 1
    /\ lastTx = 0
    /\ gate = [k \in Keys |-> Open]

\* A command with a fresh number passes the gate.
Issue(k) ==
    /\ gate[k] = Open
    /\ lastTx' = lastTx + 1
    /\ gate' = [gate EXCEPT ![k] = Busy(lastTx')]
    /\ UNCHANGED clock

\* The outcome of the command is known, or it was never sent.
Conclude(k) ==
    /\ gate[k].phase = "busy"
    /\ gate' = [gate EXCEPT ![k] = Open]
    /\ UNCHANGED <<clock, lastTx>>

\* The outcome of the command is unknown.
Abandon(k) ==
    /\ gate[k].phase = "busy"
    /\ gate' = [gate EXCEPT ![k] = Suspect(gate[k].tx)]
    /\ UNCHANGED <<clock, lastTx>>

Attest(k) ==
    /\ gate[k].phase = "ambiguous"
    /\ gate' = [gate EXCEPT ![k] = Cooling(clock + Quarantine)]
    /\ UNCHANGED <<clock, lastTx>>

\* A gate reopens at the tick that ends its cooling time, and at no other.
Tick ==
    /\ clock' = clock + 1
    /\ gate' = [k \in Keys |->
                  IF gate[k] = Cooling(clock + 1) THEN Open ELSE gate[k]]
    /\ UNCHANGED lastTx

\* A restart forgets every gate.
Reset ==
    /\ gate' = [k \in Keys |-> Open]
    /\ lastTx' = 0
    /\ UNCHANGED clock

Next ==
    \/ \E k \in Keys : Issue(k) \/ Conclude(k) \/ Abandon(k) \/ Attest(k)
    \/ Tick
    \/ Reset

Spec == Init /\ [][Next]_<<clock, lastTx, gate>>
=============================================================================
