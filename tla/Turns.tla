-------------------------------- MODULE Turns --------------------------------
(***************************************************************************)
(* From a packet to an answer: the model is asked for a turn, may ask for  *)
(* more evidence while rounds are left, is asked once to repair what does  *)
(* not parse, and the claims that cite the packet are kept.  A reply is    *)
(* what the parser makes of it; a claim is named after what it cites.  The *)
(* loop is followed to the reviewed claims.                                *)
(***************************************************************************)
EXTENDS Naturals, Sequences, FiniteSets, Lists

CONSTANTS Kinds,      \* of claims
          Replies,    \* [shape, status, more, claims]; claims is <<"absent">> or a sequence
          MaxClaims,
          MaxRounds   \* ANSWER_EVIDENCE_ROUNDS

\* The parts of a reply that the program looks at, and in which order.
TurnsAssumption ==
  /\ MaxClaims \in Nat /\ MaxRounds \in Nat
  /\ \A r \in Replies : r.shape = "object" /\ r.claims # <<"absent">> => r.claims \in Seq(Kinds)

VARIABLES caller,  \* compose_model_answer, or the loop of the answer
          stage, round, force, calls, asked, fetched, pin, reply, payload, kept, valid
vars == <<caller, stage, round, force, calls, asked, fetched, pin, reply, payload, kept, valid>>

None == [status |-> "none", claims |-> <<>>]
Final(claims) == [status |-> "final", claims |-> claims]
Need == [status |-> "need", claims |-> <<>>]
Composes == caller = "compose"

-----------------------------------------------------------------------------
\* One claim of a reply: "bad" is malformed; the others cite the packet, something else, both or nothing.
WellFormed(c) == c # "bad"
IsObject(r) == r.shape = "object"
HasList(r) == IsObject(r) /\ r.claims # <<"absent">>
Cut(r) == SubSeq(r.claims, 1, IF Len(r.claims) < MaxClaims THEN Len(r.claims) ELSE MaxClaims)
Good(r) == Filter(Cut(r), WellFormed)

\* parse_claims: what is accepted, and whether it is.
Accepted(r) == HasList(r) /\ (Cut(r) = <<>> \/ Good(r) # <<>>)
Legacy(r) == IF Accepted(r) /\ Good(r) # <<>> THEN Final(Good(r)) ELSE None

\* parse_answer_turn, and the legacy claims when that finds nothing.
Stated(r) ==
  CASE ~IsObject(r)        -> None
    [] r.status = "need"   -> IF r.more THEN Need ELSE None
    [] OTHER               -> IF HasList(r) /\ (Good(r) # <<>> \/ Cut(r) = <<>>) THEN Final(Good(r)) ELSE None
Turn(r) == IF Stated(r) # None THEN Stated(r) ELSE Legacy(r)

Allowed == ~Composes /\ round < MaxRounds /\ ~force
Answered(r) == IF Turn(r) = Need /\ ~Allowed
               THEN IF Legacy(r) # None THEN Legacy(r) ELSE Final(<<>>)
               ELSE Turn(r)

-----------------------------------------------------------------------------
Init == /\ caller \in {"loop", "compose"}
        /\ stage = "turn" /\ round = 0 /\ force = FALSE /\ calls = 0 /\ asked = 0 /\ fetched = 0 /\ pin = TRUE
        /\ reply = [shape |-> "none"] /\ payload = <<>> /\ kept = <<>> /\ valid = FALSE

Asking == stage \in {"turn", "repair_turn", "claims", "repair_claims"}
\* renew raises when the pin is closed, before the call; the model is asked only with an open one.
PinCloses == /\ Asking /\ pin /\ pin' = FALSE
             /\ UNCHANGED <<caller, stage, round, force, calls, asked, fetched, reply, payload, kept, valid>>
RenewRaises == /\ Asking /\ ~pin /\ stage' = "raised"
               /\ UNCHANGED <<caller, round, force, calls, asked, fetched, pin, reply, payload, kept, valid>>
Call(r) == pin /\ reply' = r /\ calls' = calls + 1 /\ asked' = asked + 1

\* What the answer does with a turn.
Continue(turn) ==
  IF turn = Need /\ Allowed
  THEN stage' = "fetch" /\ UNCHANGED payload
  ELSE /\ payload' = turn.claims
       /\ stage' = IF Composes THEN (IF turn.status = "final" THEN "review" ELSE "answered")
                   ELSE IF turn.claims = <<>> THEN "claims" ELSE "review"

AskTurn(r) ==
  /\ stage = "turn" /\ Call(r)
  /\ IF Turn(r) # None THEN Continue(Answered(r))
     ELSE \/ stage' = "repair_turn" /\ UNCHANGED payload
          \/ Continue(None)      \* the repair would not fit the context
  /\ UNCHANGED <<caller, round, force, fetched, pin, kept, valid>>
RepairTurn(r) ==
  /\ stage = "repair_turn" /\ Call(r)
  /\ Continue(Turn(r))
  /\ UNCHANGED <<caller, round, force, fetched, pin, kept, valid>>

\* More evidence: found, or nothing new and the next round is the last.
Fetch ==
  /\ stage = "fetch"
  /\ force' \in {force, TRUE}
  /\ fetched' = fetched + 1 /\ round' = round + 1 /\ calls' = 0 /\ stage' = "turn"
  /\ UNCHANGED <<caller, asked, pin, reply, payload, kept, valid>>

\* collect_model_claims, when the turn brought no claim.
AskClaims(r) ==
  /\ stage = "claims" /\ Call(r)
  /\ IF Accepted(r) THEN payload' = Good(r) /\ stage' = "review"
     ELSE IF r.shape = "oversized" THEN payload' = <<>> /\ stage' = "review"
     ELSE \/ stage' = "repair_claims" /\ UNCHANGED payload
          \/ payload' = <<>> /\ stage' = "review"
  /\ UNCHANGED <<caller, round, force, fetched, pin, kept, valid>>
RepairClaims(r) ==
  /\ stage = "repair_claims" /\ Call(r)
  /\ payload' = (IF Accepted(r) THEN Good(r) ELSE <<>>) /\ stage' = "review"
  /\ UNCHANGED <<caller, round, force, fetched, pin, kept, valid>>

\* review_claims over the resolved aliases.
CitesPacket(c) == c \in {"cites", "cites_both"}
CitesOther(c) == c \in {"cites_both", "cites_other"}
OfKept(claims) == ~\E i \in DOMAIN Filter(claims, CitesPacket) : CitesOther(Filter(claims, CitesPacket)[i])   \* mutant
NoInvalid(claims) == ~\E i \in DOMAIN claims : CitesOther(claims[i])
Review ==
  /\ stage = "review"
  /\ kept' = Filter(payload, CitesPacket)
  /\ valid' = (kept' # <<>> /\ NoInvalid(payload))
  /\ stage' = "answered"
  /\ UNCHANGED <<caller, round, force, calls, asked, fetched, pin, reply, payload>>

Next == \/ \E r \in Replies : AskTurn(r) \/ RepairTurn(r) \/ AskClaims(r) \/ RepairClaims(r)
        \/ PinCloses \/ RenewRaises \/ Fetch \/ Review
Spec == Init /\ [][Next]_vars

-----------------------------------------------------------------------------
TypeOK ==
  /\ stage \in {"turn", "repair_turn", "fetch", "claims", "repair_claims", "review", "answered", "raised"}
  /\ Len(payload) <= MaxClaims /\ Len(kept) <= Len(payload) /\ \A i \in DOMAIN payload : WellFormed(payload[i])
  /\ round \in 0..MaxRounds /\ valid \in BOOLEAN

\* A question costs at most one repair for each turn and for the last plea for claims, and no more
\* fetches than rounds, however the model answers; to compose alone is one turn.
CallsBounded == asked <= (IF Composes THEN 2 ELSE 2 * (MaxRounds + 2)) /\ fetched <= MaxRounds

\* An answer whose citations are called valid was read from claims none of which cites anything that
\* is not in the packet: those that were dropped count too.
HonestCitations ==
  valid => kept # <<>> /\ \A i \in DOMAIN Good(reply) : ~CitesOther(Good(reply)[i])

\* A reply that brings a claim citing the packet is not wasted when it is the first that was asked for,
\* whatever status it gives itself in a round that allows no request.
Brings(r) == HasList(r) /\ \E i \in DOMAIN Cut(r) : CitesPacket(Cut(r)[i])
FirstKept == stage = "answered" /\ calls = 1 /\ Brings(reply) => kept # <<>>

=============================================================================
