---------------------------- MODULE ClaimLedger ----------------------------
(***************************************************************************)
(* What the store promises about a source event, whatever crashes: at most *)
(* one claim ever touches it.  A claim covers a set of events that nobody  *)
(* acknowledged before; its operations may be cut short by a crash, but    *)
(* nobody starts them again; it is closed only after its events are        *)
(* acknowledged, and what a closed claim did stays done.                   *)
(***************************************************************************)
EXTENDS Naturals, Sequences

CONSTANT Event

VARIABLES recorded,  \* the events known to the store
          claim,     \* the open claim, a set of {[id, sources]} with at most one
          effects,   \* the claim of every operation in effect, in order
          acked      \* the events whose curation is over

vars == <<recorded, claim, effects, acked>>

Init == recorded = {} /\ claim = {} /\ effects = <<>> /\ acked = {}

Record ==
    /\ recorded \subseteq recorded' /\ recorded' \subseteq Event
    /\ UNCHANGED <<claim, effects, acked>>

\* A claim nobody made before, on events nobody acknowledged.
Claim ==
    /\ claim = {} /\ claim' # {}
    /\ \A c, d \in claim' : c = d
    /\ \A c \in claim' : /\ c.sources \subseteq recorded \ acked
                         /\ \A i \in DOMAIN effects : effects[i].id # c.id
    /\ UNCHANGED <<recorded, effects, acked>>

Open(c) == c \in claim /\ ~(c.sources \subseteq acked)

Effect ==
    /\ \E c \in claim : Open(c) /\ effects' = Append(effects, c)
    /\ UNCHANGED <<recorded, claim, acked>>

\* A crash takes back the last operations of the open claim, never others.
Lose(k) ==
    /\ \A i \in k + 1 .. Len(effects) : Open(effects[i])
    /\ effects' = SubSeq(effects, 1, k)
    /\ UNCHANGED <<recorded, claim, acked>>

Acknowledge ==
    /\ \E c \in claim : acked' = acked \cup c.sources
    /\ UNCHANGED <<recorded, claim, effects>>

CloseClaim ==
    /\ \A c \in claim : c.sources \subseteq acked
    /\ claim' = {}
    /\ UNCHANGED <<recorded, effects, acked>>

Next ==
    \/ Record \/ Claim \/ Effect
    \/ \E k \in 0 .. Len(effects) : Lose(k)
    \/ Acknowledge \/ CloseClaim

Spec == Init /\ [][Next]_vars
=============================================================================
