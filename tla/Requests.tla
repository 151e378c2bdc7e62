------------------------------- MODULE Requests -------------------------------
(***************************************************************************)
(* What concurrent requests share: the events of the rate limit            *)
(* (RateLimit), the bodies that questions create (Question), the ring of   *)
(* the log (LogBuffer), the slots of the bridge (CursorBridge); and what a *)
(* question ends in: the packet of its evidence (Packing) and the turns of *)
(* the model (Turns).  They have no state in common: `part' says which of  *)
(* them runs, and the variables of the others are None, or as they were at *)
(* first.                                                                  *)
(***************************************************************************)
EXTENDS RateLimit, FiniteSets

None == "none"

VARIABLE part

-----------------------------------------------------------------------------
CONSTANTS Questions, Symbols
VARIABLES row, points, at, job, todo, lack, mine, tx, pin, hydrated, saw, fault, status
questionVars == <<row, points, at, job, todo, lack, mine, tx, pin, hydrated, saw, fault, status>>

Asked == INSTANCE Question
AskedOff ==
  /\ row = None /\ points = None /\ at = None /\ job = None /\ todo = None /\ lack = None
  /\ mine = None /\ tx = None /\ pin = None /\ hydrated = None /\ saw = None /\ fault = None
  /\ status = None

-----------------------------------------------------------------------------
CONSTANTS Readers, Loggers, Levels, Capacity, MaxLogged
VARIABLES entries, logged, pc, asked, rows, seen
logVars == <<entries, logged, pc, asked, rows, seen>>

Logged == INSTANCE LogBuffer
LoggedOff ==
  /\ entries = None /\ logged = None /\ pc = None /\ asked = None /\ rows = None /\ seen = None

-----------------------------------------------------------------------------
CONSTANTS Kinds, Replies, MaxClaims, MaxRounds
VARIABLES caller, turn, round, force, calls, told, fetched, reader, reply, payload, claims, valid
turnVars == <<caller, turn, round, force, calls, told, fetched, reader, reply, payload, claims, valid>>

Turned == INSTANCE Turns
  WITH stage <- turn, asked <- told, pin <- reader, kept <- claims
TurnedOff ==
  /\ caller = None /\ turn = None /\ round = None /\ force = None /\ calls = None /\ told = None /\ fetched = None
  /\ reader = None /\ reply = None /\ payload = None /\ claims = None /\ valid = None

-----------------------------------------------------------------------------
CONSTANTS Posts, Slots
VARIABLES slots, post, answer, client, cli, helpers, late
bridgeVars == <<slots, post, answer, client, cli, helpers, late>>

Bridged == INSTANCE CursorBridge
  WITH Requests <- Posts, pc <- post, status <- answer
BridgedOff ==
  /\ slots = None /\ post = None /\ answer = None /\ client = None /\ cli = None /\ helpers = None /\ late = None

-----------------------------------------------------------------------------
CONSTANTS Loaded, Others, Needs, Headers, NoteSize, IdSize, SourceCap, EvidenceCap, Context, Output, Margin,
          Strategies, Fails
VARIABLES spans, others, required, header, strategy, order, next, kept, others_kept, excluded, text, raw, stage, boosted, up
packVars == <<spans, others, required, header, strategy, order, next, kept, others_kept, excluded, text, raw, stage, boosted, up>>

Packs == INSTANCE Packing
  WITH at <- next
PacksOff ==
  /\ spans = None /\ others = None /\ required = None /\ header = None /\ strategy = None /\ order = None
  /\ next = None /\ kept = None /\ others_kept = None /\ excluded = None /\ text = None /\ raw = None
  /\ stage = None /\ boosted = None /\ up = None

-----------------------------------------------------------------------------
ASSUME SharedAssumption ==
  /\ Asked!QuestionAssumption /\ Logged!LogAssumption /\ Turned!TurnsAssumption
  /\ Bridged!BridgeAssumption /\ Packs!PackingAssumption

SharedInit ==
  /\ part \in {"limit", "questions", "log", "turns", "bridge", "pack"}
  /\ Init
  /\ IF part = "questions" THEN Asked!Init ELSE AskedOff
  /\ IF part = "log" THEN Logged!Init ELSE LoggedOff
  /\ IF part = "turns" THEN Turned!Init ELSE TurnedOff
  /\ IF part = "bridge" THEN Bridged!Init ELSE BridgedOff
  /\ IF part = "pack" THEN Packs!Init ELSE PacksOff

LimitStep == part = "limit" /\ Next /\ UNCHANGED <<questionVars, logVars, turnVars, bridgeVars, packVars>>
QuestionStep == part = "questions" /\ Asked!Next /\ UNCHANGED <<vars, logVars, turnVars, bridgeVars, packVars>>
LogStep == part = "log" /\ Logged!Next /\ UNCHANGED <<vars, questionVars, turnVars, bridgeVars, packVars>>
TurnStep == part = "turns" /\ Turned!Next /\ UNCHANGED <<vars, questionVars, logVars, bridgeVars, packVars>>
BridgeStep == part = "bridge" /\ Bridged!Next /\ UNCHANGED <<vars, questionVars, logVars, turnVars, packVars>>
PackStep == part = "pack" /\ Packs!Next /\ UNCHANGED <<vars, questionVars, logVars, turnVars, bridgeVars>>

SharedNext ==
  /\ UNCHANGED part
  /\ LimitStep \/ QuestionStep \/ LogStep \/ TurnStep \/ BridgeStep \/ PackStep
sharedVars == <<part, vars, questionVars, logVars, turnVars, bridgeVars, packVars>>

SharedSpec == SharedInit /\ [][SharedNext]_sharedVars

\* A row marked ready has its vector, whichever of two questions rolls back, and a question's own search
\* reads the bodies it hydrated (answer.py, lazy_vectors.py).
BodiesAreThere == part = "questions" => Asked!TypeOK /\ Asked!BodiesAreThere

\* A reader of the log gets the newest entries that match, in order, whatever is appended while it
\* filters (core/log_buffer.py).
NewestInOrder == part = "log" => Logged!TypeOK /\ Logged!NewestMatching

\* A question costs a bounded number of calls, citations are called valid only if no claim of the reply
\* cites anything else, and a first reply that cites the packet is not wasted (answer_turn.py).
ClaimsAreHonest ==
  part = "turns" => Turned!TypeOK /\ Turned!CallsBounded /\ Turned!HonestCitations /\ Turned!FirstKept

\* Every path through a call of the Cursor bridge that takes a slot gives it back, once, and no more CLIs run
\* than there are slots (cursor_bridge.py, cli_runner.py).
SlotsAreBack ==
  part = "bridge" => Bridged!TypeOK /\ Bridged!SlotsConserved /\ Bridged!AtMostSlots

\* No byte is in a packet twice, nothing optional takes the room of a required part, what is missing of
\* one is reported, and all of it fits the context even when the tokenizer fails halfway
\* (packet.py, answer.py, prompt_budget.py).
PacketFits ==
  /\ [](part = "pack" => /\ Packs!TypeOK /\ Packs!NoOverlap /\ Packs!OptionalWithinCaps /\ Packs!MissingIsTold)
  /\ [][part = "pack" => Packs!NeverDisplaced /\ Packs!CountedFits]_sharedVars
=============================================================================
