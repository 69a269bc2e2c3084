----------------------------- MODULE ReplySend -----------------------------
(***********************************************************************)
(* How the connector sends a reply: OnReply (connector_sink.go) cuts the *)
(* text into segments (mention_split.go) that spare the mentions in it,   *)
(* and posts one after the other, each a second time when the first try   *)
(* failed (rest_send.go).                                                *)
(*                                                                       *)
(* A text is a sequence of UTF-16 units of which only the kind counts; a  *)
(* position is the number of units before it.  Spans are the mentions     *)
(* that resolveMentions found.  They are disjoint, unless a display name  *)
(* has an "@" inside, which is left out.                                  *)
(***********************************************************************)
EXTENDS Naturals, Sequences, FiniteSets

CONSTANTS MaxUnits,     \* units of a segment: 3500
          MaxLength     \* bound on the length of a text

ASSUME ReplyAssumption == MaxUnits \in Nat /\ MaxUnits >= 2 /\ MaxLength \in Nat

VARIABLES
  text,         \* finalContent
  spans,        \* mentionEntries, [from, to]
  mentionAll,   \* mentionAll
  consumed,     \* where the segment at hand starts
  upTo,         \* where it ends
  tries,        \* failed posts of it
  at,           \* where OnReply is
  stopped,      \* the connector's context is cancelled
  chat,         \* the server: what the channel shows
  dropped       \* DROPPED segments

replyVars == <<text, spans, mentionAll, consumed, upTo, tries, at, stopped, chat, dropped>>
reply == <<text, spans, mentionAll>>

(* An ordinary unit, a newline, a space, the halves of a surrogate pair.   *)
Kinds == {"x", "newline", "space", "high", "low"}

Whole(t) ==
  /\ \A i \in 1..Len(t) : t[i] = "high" => i < Len(t) /\ t[i + 1] = "low"
  /\ \A i \in 1..Len(t) : t[i] = "low" => i > 1 /\ t[i - 1] = "high"

(* OnReply has trimmed it.                                                 *)
Trimmed(t) == t = <<>> \/ {t[1], t[Len(t)]} \cap {"newline", "space"} = {}

Texts == {t \in UNION {[1..n -> Kinds] : n \in 0..MaxLength} : Whole(t) /\ Trimmed(t)}

(* A mention has its "@" first, no newline, and no half of a pair.         *)
SpansOf(t) ==
  {s \in [from : 0..MaxLength, to : 0..MaxLength] :
     /\ s.from < s.to /\ s.to <= Len(t)
     /\ t[s.from + 1] = "x" /\ t[s.to] # "high"
     /\ \A i \in (s.from + 1)..s.to : t[i] # "newline"}

Disjoint(r, s) == r = s \/ r.to <= s.from \/ s.to <= r.from

ReplyInit ==
  /\ text \in Texts
  /\ \E r, s \in SpansOf(text) \cup {[from |-> 0, to |-> 0]} :
       /\ Disjoint(r, s)
       /\ spans = {q \in {r, s} : q.from < q.to}
  /\ mentionAll \in {FALSE, text # <<>>}
  /\ consumed = 0 /\ upTo = 0 /\ tries = 0
  /\ at = "reply" /\ stopped = FALSE
  /\ chat = <<>> /\ dropped = {}

-----------------------------------------------------------------------------
(* splitMessageProtected.                                                   *)

Inside(p, s) == s.from < p /\ p < s.to

(* Deviation: a cut is taken where it falls.                                *)
Unadjusted(p) == p

(* adjustSplitForProtectedRanges: before the mention it falls into, or      *)
(* behind it when the segment starts with it.                               *)
Adjusted(p) ==
  IF \E s \in spans : Inside(p, s)
  THEN LET s == CHOOSE s \in spans : Inside(p, s)
       IN  IF s.from > consumed THEN s.from ELSE s.to
  ELSE p

(* The last of the positions is a place to cut: tryProtectedSplit.          *)
Last(P) == CHOOSE p \in P : \A q \in P : q <= p

Fits(P) == P # {} /\ Adjusted(Last(P)) <= consumed + MaxUnits

(* Behind two newlines, a newline, a space, each with something before it.  *)
Paragraphs ==
  {p \in (consumed + 3)..(consumed + MaxUnits) : text[p - 1] = "newline" /\ text[p] = "newline"}
Behind(kind) == {p \in (consumed + 2)..(consumed + MaxUnits) : text[p] = kind}

(* hardProtectedSplit.                                                      *)
HardSplit ==
  LET p == consumed + MaxUnits
  IN  Adjusted(IF text[p] = "high" THEN p - 1 ELSE p)

SplitAt ==
  CASE Len(text) <= consumed + MaxUnits -> Len(text)
    [] OTHER -> IF Fits(Paragraphs) THEN Adjusted(Last(Paragraphs))
                ELSE IF Fits(Behind("newline")) THEN Adjusted(Last(Behind("newline")))
                ELSE IF Fits(Behind("space")) THEN Adjusted(Last(Behind("space")))
                ELSE HardSplit

-----------------------------------------------------------------------------
(* Sending.                                                                 *)

(* mentionsInSegment, and the first segment's @all.                         *)
Tagged == {s \in spans : consumed <= s.from /\ s.to <= upTo}
UseMentionAll == mentionAll /\ consumed = 0

(* client_msg_no, drawn once per segment.                                   *)
ClientMsgNo == <<consumed>>

Message == [no |-> ClientMsgNo, from |-> consumed, to |-> upTo, tags |-> Tagged, all |-> UseMentionAll]

(* The server shows a message once per client_msg_no.                       *)
Shown(m) == IF \E i \in 1..Len(chat) : chat[i].no = m.no THEN chat ELSE Append(chat, m)

(* A text without content is answered with noResponseFallback, once.        *)
OnEmptyReply ==
  /\ at = "reply" /\ text = <<>>
  /\ at' = "sent"
  /\ chat' \in IF stopped THEN {chat} ELSE {chat, Shown(Message)}
  /\ UNCHANGED <<reply, consumed, upTo, tries, stopped, dropped>>

(* sendResolvedReply takes the next segment.                                *)
NextSegment ==
  /\ at = "reply" /\ text # <<>>
  /\ upTo' = SplitAt
  /\ tries' = 0
  /\ at' = "posting"
  /\ UNCHANGED <<reply, consumed, stopped, chat, dropped>>

SegmentDone ==
  /\ consumed' = upTo
  /\ at' = IF upTo = Len(text) THEN "sent" ELSE "reply"
  /\ UNCHANGED <<reply, upTo, tries, stopped>>

PostSucceeds ==
  /\ at = "posting" /\ ~stopped /\ tries < 2
  /\ chat' = Shown(Message)
  /\ SegmentDone
  /\ UNCHANGED dropped

(* The server did not get it, or its answer is lost.                        *)
PostFails ==
  /\ at = "posting" /\ tries < 2
  /\ tries' = tries + 1
  /\ chat' \in IF stopped THEN {chat} ELSE {chat, Shown(Message)}
  /\ UNCHANGED <<reply, consumed, upTo, at, stopped, dropped>>

(* One retry, and none once the connector stops.                            *)
GiveUp ==
  /\ at = "posting"
  /\ tries = 2 \/ (tries = 1 /\ stopped)
  /\ dropped' = dropped \cup {[from |-> consumed, to |-> upTo]}
  /\ SegmentDone
  /\ UNCHANGED chat

ConnectorStops ==
  /\ ~stopped /\ stopped' = TRUE
  /\ UNCHANGED <<reply, consumed, upTo, tries, at, chat, dropped>>

ReplyNext ==
  \/ OnEmptyReply \/ NextSegment \/ PostSucceeds \/ PostFails \/ GiveUp
  \/ ConnectorStops

ReplySpec == ReplyInit /\ [][ReplyNext]_replyVars

-----------------------------------------------------------------------------
(* "splitting can never break a mention across segments" and no cut goes    *)
(* through a surrogate pair (connector_sink.go:83, mention_split.go:45).    *)
CleanCut(p) ==
  /\ \A s \in spans : ~Inside(p, s)
  /\ p \in 1..(Len(text) - 1) => text[p] # "high"

(* A segment has at most MaxUnits units, or is one long mention.            *)
Short(m) == m.to - m.from <= MaxUnits \/ m \in spans

CutsAreClean ==
  /\ CleanCut(consumed) /\ CleanCut(upTo)
  /\ at = "posting" => consumed < upTo /\ Short([from |-> consumed, to |-> upTo])

(* What the channel shows of a reply is the reply: in order, no part twice, *)
(* nothing missing but what was logged as dropped, although a try that      *)
(* failed may have been shown; each mention tagged with the part it is in,  *)
(* and @all said once.                                                      *)
ReplyIntact ==
  /\ CutsAreClean
  /\ \A i \in 1..Len(chat) :
       /\ \A j \in 1..Len(chat) : i < j => chat[i].to <= chat[j].from /\ ~chat[j].all
       /\ chat[i].tags = {s \in spans : chat[i].from <= s.from /\ s.to <= chat[i].to}
  /\ \A p \in 0..(Len(text) - 1) : p < consumed =>
       \/ \E i \in 1..Len(chat) : chat[i].from <= p /\ p < chat[i].to
       \/ \E d \in dropped : d.from <= p /\ p < d.to
  /\ at = "sent" => consumed = Len(text)
=============================================================================
