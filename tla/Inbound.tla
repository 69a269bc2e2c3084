------------------------------- MODULE Inbound -------------------------------
(***********************************************************************)
(* What becomes of a frame: the connector's onInbound, the classifier of  *)
(* core/trigger and the gates of the router (gate.go).  A behaviour is    *)
(* one frame's, under any policy: it leaves nothing here that the next    *)
(* one would meet.  The queue between connector and router is TurnQueue,  *)
(* the rate limit RateLimiter, the frames about GROUP.md are GroupDoc.    *)
(*                                                                       *)
(* A mention without content stands for none, and humans for either of    *)
(* the @everyone flags: nothing in the code tells them apart.  Read       *)
(* receipts, attachments and the quoted text are left out.                *)
(***********************************************************************)
EXTENDS Naturals

Self == "self"
Person == "person"
Peer == "peer_bot"            \* looksLikeBot: the suffix
Grantor == "grantor"
Absent == ""                  \* no uid, no channel, no grantor

Groups == {"group", "thread"} \* a thread of that very group
Far == "far"                  \* where the grantor relays from

VARIABLES setup,  \* the policy and the router's configuration
          frame,  \* what was received, or fired, last
          fate    \* and what became of it

inboundVars == <<setup, frame, fate>>

Setups ==
  [grantor : {Absent, Grantor}, free : {{}, {"group"}}, ai : {"deny", "allowlist", "allow"},
   quotes : BOOLEAN, lists : {"none", "blocked", "allowed"}]

(* BotBlocklist and AllowedBotUids.                                         *)
blocked == IF setup.lists = "blocked" THEN {Person, Peer} ELSE {}
allowed == IF setup.lists = "allowed" THEN {Peer} ELSE {}

Mentions == [uids : {{}, {Self}, {Grantor}, {Person}}, ais : BOOLEAN, humans : BOOLEAN]

Origin(id, kind, author, as) == [id |-> id, kind |-> kind, author |-> author, as |-> as]

(* TriggerOBO: nothing, relays from a group, this one among them, and from  *)
(* a direct message, and one without the grantor's name.                    *)
Origins ==
  {Origin(Absent, "unset", Absent, Absent),
   Origin(Far, "group", Person, Grantor), Origin("group", "unset", Person, Grantor),
   Origin(Far, "dm", Person, Grantor),
   Origin(Far, "group", Person, Absent)}

NoMention == [uids |-> {}, ais |-> FALSE, humans |-> FALSE]
NoOrigin == Origin(Absent, "unset", Absent, Absent)

(* A frame of the IM, and what the scheduler and the Console make of theirs. *)
Frames ==
  [source : {"user"}, shape : {"chat"}, from : {Person, Peer, Grantor},
   channel : {"dm", Absent} \cup Groups, mention : Mentions, quotesBot : BOOLEAN, origin : Origins]

(* Partial updates, control-plane payloads, what resolves to no text, and   *)
(* what comes from nobody or from the bot itself.                           *)
Noise ==
  [source : {"user"}, shape : {"stream", "control", "blank", "chat"},
   from : {Self, Person, Peer, Grantor, Absent},
   channel : {"dm"} \cup Groups, mention : {[NoMention EXCEPT !.uids = {Self}]},
   quotesBot : {FALSE}, origin : {NoOrigin}]

Synthetic(s) ==
  [source : {s}, shape : {"chat"}, from : {Person, Peer, Grantor},
   channel : IF s = "cron" THEN {"dm"} \cup Groups ELSE {"dm"},
   mention : {NoMention}, quotesBot : {FALSE}, origin : {NoOrigin}]

NoFrame == CHOOSE f \in Synthetic("cron") : TRUE

InboundInit == setup \in Setups /\ frame = NoFrame /\ fate = "none"

-----------------------------------------------------------------------------
(* core/trigger.                                                            *)

Persona == setup.grantor # Absent

(* evaluateOBOTrust.  Deviation: whoever sends it.                          *)
TrustsAnybody(f) == Persona /\ f.origin.id # Absent /\ f.origin.as # Absent
Trusted(f) == Persona /\ f.origin.id # Absent /\ f.origin.as # Absent /\ f.from = setup.grantor

QuoteAddresses(f) == setup.quotes /\ f.quotesBot

PersonaRelevant(m) ==
  \/ m.humans \/ setup.grantor \in m.uids
  \/ ~m.ais /\ m.uids = {}

Irrelevant(f) == Trusted(f) /\ ~PersonaRelevant(f.mention) /\ ~QuoteAddresses(f)

AcceptsAI(f) == setup.ai = "allow" \/ (setup.ai = "allowlist" /\ f.channel = "group")

(* The rules in their order, and which of them a frame meets.               *)
Rules == <<"dm", "explicit_bot", "persona_humans", "persona_grantor", "reply_to_bot",
           "ai_broadcast", "mention_free_group">>

Meets(f) ==
  [dm |-> f.channel = "dm",
   explicit_bot |-> Self \in f.mention.uids,
   persona_humans |-> Persona /\ f.mention.humans,
   persona_grantor |-> Persona /\ setup.grantor \in f.mention.uids,
   reply_to_bot |-> QuoteAddresses(f),
   ai_broadcast |-> f.mention.ais /\ ~f.mention.humans /\ AcceptsAI(f),
   mention_free_group |-> f.channel \in setup.free]

Met(f) == {i \in DOMAIN Rules : Meets(f)[Rules[i]]}

Classify(f) ==
  CASE f.source = "cron" -> "cron"
    [] f.source = "console" -> "dm"
    [] f.source = "user" /\ Irrelevant(f) -> "obo_irrelevant"
    [] f.source = "user" /\ ~Irrelevant(f) ->
         IF Met(f) = {} THEN "observation" ELSE Rules[CHOOSE i \in Met(f) : \A j \in Met(f) : i <= j]

IsAmbiguous(reason) == reason = "mention_free_group"

(* on_behalf_of.                                                            *)
Voice(f) ==
  IF Trusted(f) \/ Classify(f) \in {"persona_humans", "persona_grantor", "reply_to_bot", "cron"}
  THEN setup.grantor ELSE Absent

-----------------------------------------------------------------------------
(* The connector.                                                           *)

Session(f) == IF f.channel = "dm" THEN f.from ELSE f.channel

(* targetFromDecision.                                                      *)
OriginTarget(o) == IF o.kind = "dm" /\ o.author # Absent THEN o.author ELSE o.id

(* RerouteTarget: a reply to the group from a session of its thread.        *)
Target(f) ==
  LET aimed == IF Trusted(f) THEN OriginTarget(f.origin) ELSE f.channel
      bare == Session(f) = "thread" /\ aimed = "group"
  IN  IF bare THEN "thread" ELSE aimed

Fate(f) ==
  CASE f.from \in {Self, Absent} \/ f.shape = "stream" -> "dropped"
    [] f.from \notin {Self, Absent} /\ f.shape = "control" -> "control"
    [] f.from \notin {Self, Absent} /\ f.shape = "blank" -> "dropped"
    [] f.from \notin {Self, Absent} /\ f.shape = "chat" ->
         LET reason == Classify(f)
         IN  IF reason = "obo_irrelevant" \/ Session(f) = Absent THEN "dropped"
             ELSE IF reason = "observation" THEN "observed" ELSE "queued"

(* onInbound, to the end of dispatchInbound.                                *)
OnInbound ==
  /\ fate = "none"
  /\ \E f \in Frames \cup Noise : frame' = f /\ fate' = Fate(f)
  /\ UNCHANGED setup

(* EnqueueCron, and session.send.                                           *)
Synthesizes ==
  /\ fate = "none"
  /\ \E s \in {"cron", "console"} : \E f \in Synthetic(s) : frame' = f /\ fate' = "queued"
  /\ UNCHANGED setup

-----------------------------------------------------------------------------
(* The gates of RouteAndHandle.  The router takes its own uid for a bot's.  *)

LooksLikeBot(uid) == uid \in {Peer, Self}
BotLoop(f) == LooksLikeBot(f.from) /\ f.from \notin allowed

DmGate(f) ==
  f.channel = "dm" /\ f.source # "cron" => f.from \notin blocked /\ ~BotLoop(f)

GroupBotGuards(f) ==
  f.channel \in Groups /\ f.source # "cron" =>
    f.from \notin blocked /\ ~(IsAmbiguous(Classify(f)) /\ BotLoop(f))

Passes(f) == DmGate(f) /\ GroupBotGuards(f)

RouteAndHandle(outcome) == fate = "queued" /\ fate' = outcome /\ UNCHANGED <<setup, frame>>

DroppedBot == ~Passes(frame) /\ RouteAndHandle("dropped")

(* The sender is told.                                                      *)
DroppedTooLong == Passes(frame) /\ RouteAndHandle("told")

(* Too many, with the one notice of a block, or after it (RateLimiter).     *)
RateLimited == Passes(frame) /\ frame.source # "cron" /\ RouteAndHandle("told")
RateLimitedSilent == Passes(frame) /\ frame.source # "cron" /\ RouteAndHandle("silenced")

Accepted == Passes(frame) /\ RouteAndHandle("turn")

InboundNext ==
  \/ OnInbound \/ Synthesizes
  \/ DroppedBot \/ DroppedTooLong \/ RateLimited \/ RateLimitedSilent \/ Accepted

InboundSpec == InboundInit /\ [][InboundNext]_inboundVars

-----------------------------------------------------------------------------
InboundTypeOK ==
  /\ setup \in Setups
  /\ fate \in {"none", "dropped", "control", "observed", "queued", "told", "silenced", "turn"}

Answered == fate \in {"told", "turn"} /\ frame.source = "user"

(* Asked in a way that says whom, by metadata alone.                        *)
Addressed(f) ==
  \/ f.channel = "dm" \/ Self \in f.mention.uids \/ QuoteAddresses(f)
  \/ Persona /\ (f.mention.humans \/ setup.grantor \in f.mention.uids)
  \/ f.mention.ais /\ ~f.mention.humans /\ AcceptsAI(f)

(* Nobody gets an answer who must not have one: no frame of the server's    *)
(* ("must NEVER reach the trigger classifier"), no blocked sender, and no   *)
(* other bot in a direct message or without addressing this one, which is   *)
(* how two bots would talk for ever (gate.go:110-131).                      *)
OnlyTheirTurn ==
  Answered =>
    /\ frame.shape = "chat" /\ frame.from \notin {Self, Absent} \cup blocked
    /\ frame.from = Peer /\ (frame.channel = "dm" \/ ~Addressed(frame)) => Peer \in allowed

(* Nobody but the grantor decides where a reply goes, and none goes out in  *)
(* another voice than the bot's or the configured grantor's ("so a forger   *)
(* can't reroute the reply", obo.go:31).                                    *)
NoForgedRoute ==
  fate \in {"queued", "told", "turn"} =>
    /\ Target(frame) # frame.channel => frame.from = setup.grantor
    /\ Voice(frame) \in {Absent, setup.grantor}

(* "an irrelevant fan-out never leaks" (types.go:41): what the grantor's    *)
(* relay brings and is meant for others is in no context and no turn.       *)
NoLeak ==
  LET m == frame.mention
  IN  /\ Persona /\ frame.from = Grantor /\ frame.origin.id # Absent /\ frame.origin.as # Absent
      /\ ~m.humans /\ Grantor \notin m.uids /\ (m.ais \/ m.uids # {})
      /\ ~(frame.quotesBot /\ setup.quotes)
      => fate \in {"none", "dropped"}

(* Who addresses the bot is not overheard: unless it is such a relay, a     *)
(* message with a session that says whom it is for becomes a turn or is     *)
(* refused aloud, if a person sent it, and only the rate limit, in a block  *)
(* that it has told of, refuses one in silence.                             *)
NobodyIgnored ==
  /\ frame.source = "user" /\ frame.shape = "chat" /\ Addressed(frame)
  /\ frame.from \in {Person, Grantor} \ blocked /\ frame.channel # Absent
  /\ ~Irrelevant(frame)
  => fate \in {"none", "queued", "told", "silenced", "turn"}

FateFits == InboundTypeOK /\ OnlyTheirTurn /\ NoForgedRoute /\ NoLeak /\ NobodyIgnored
=============================================================================
