------------------------------ MODULE GroupDoc ------------------------------
(***********************************************************************)
(* A channel's GROUP.md: the server's, and the copy in the sandbox of the *)
(* channel's session, which turns read.  Control-plane frames tell of     *)
(* changes; the read loop starts a refresh for a frame, unless it started *)
(* one in the last three seconds, and refreshes run beside each other     *)
(* (octo/sysmsg.go).                                                      *)
(*                                                                       *)
(* Frames are sent again until they are acked, and nothing remembers one  *)
(* that was read: onInbound takes them before memFirstSeen.  The ack goes *)
(* out before the frame is handled, so a crash between the two loses it.  *)
(*                                                                       *)
(* A document is the number of the edit that made it, 0 if there is none. *)
(* Lengths are left out.                                                  *)
(***********************************************************************)
EXTENDS Naturals, Sequences, FiniteSets

CONSTANTS Refreshes,  \* goroutines, tracked by turnsWG
          MaxEdits    \* bound: edits on the server

ASSUME DocAssumption == IsFiniteSet(Refreshes) /\ MaxEdits \in Nat

Notices == [edit : 1..MaxEdits, kind : {"updated", "deleted"}]

VARIABLES
  server, local,  \* the document there, and GROUP.md here
  edits,          \* so far
  notices,        \* control-plane frames on their way, in their order
  owed,           \* those that the server will send again
  recent,         \* sysDebounce: a refresh was started in the last 3 s
  refresh,        \* [Refreshes -> what it is about to do]
  blame           \* history: why GROUP.md may differ from the server's

docVars == <<server, local, edits, notices, owed, recent, refresh, blame>>

Causes == {"coalesced", "failed", "overlap", "lost", "unread", "outdated"}

Off == [at |-> "off", doc |-> 0]
Running(rs) == {r \in rs : refresh[r] # Off}

DocInit ==
  /\ server = 0 /\ local = 0 /\ edits = 0 /\ notices = <<>> /\ owed = {} /\ recent = FALSE
  /\ refresh = [r \in Refreshes |-> Off] /\ blame = {}

-----------------------------------------------------------------------------
(* The server: a new text, a blank one, or none.  What was not acked comes  *)
(* again, after frames that were sent later.                                *)

Edits(doc, kind) ==
  /\ edits < MaxEdits
  /\ edits' = edits + 1 /\ server' = doc
  /\ notices' = Append(notices, [edit |-> edits + 1, kind |-> kind])
  /\ UNCHANGED <<local, owed, recent, refresh, blame>>

ServerWrites == Edits(edits + 1, "updated")
ServerClears == Edits(0, "updated")
ServerDeletes == Edits(0, "deleted")

Redelivers(n) ==
  /\ owed' = owed \ {n} /\ notices' = Append(notices, n)
  /\ UNCHANGED <<server, local, edits, recent, refresh, blame>>

-----------------------------------------------------------------------------
(* The read loop takes a frame; its ack arrives or does not.                *)

Takes == notices # <<>> /\ notices' = Tail(notices)
Acks == owed' = owed \/ owed' = owed \cup {Head(notices)}

(* Not acked, two times out of three, when it cannot be decrypted.          *)
Undecrypted ==
  /\ Takes /\ owed' = owed \cup {Head(notices)} /\ blame' = blame \cup {"unread"}
  /\ UNCHANGED <<server, local, edits, recent, refresh>>

(* The third time; or the daemon crashed before the frame was handled.      *)
Loses ==
  /\ Takes /\ blame' = blame \cup {"lost"}
  /\ UNCHANGED <<server, local, edits, owed, recent, refresh>>

(* handleSystemMessage, claimSysRefresh.                                    *)

StartsWith(kind) == [at |-> IF kind = "deleted" THEN "delete" ELSE "fetch", doc |-> 0]

(* A deletion of what was there before the server's last edit.              *)
Outdated(n) == n.kind = "deleted" /\ n.edit # edits

Claimed ==
  /\ Takes /\ Acks /\ ~recent /\ recent' = TRUE
  /\ \E r \in Refreshes \ Running(Refreshes) : refresh' = [refresh EXCEPT ![r] = StartsWith(Head(notices).kind)]
  /\ blame' = (IF Running(Refreshes) = {} THEN {} ELSE {"overlap"})
                 \cup (IF Outdated(Head(notices)) THEN {"outdated"} ELSE {})
  /\ UNCHANGED <<server, local, edits>>

Coalesced ==
  /\ Takes /\ Acks /\ recent /\ blame' = blame \cup {"coalesced"}
  /\ UNCHANGED <<server, local, edits, recent, refresh>>

WindowEnds ==
  /\ recent /\ recent' = FALSE
  /\ UNCHANGED <<server, local, edits, notices, owed, refresh, blame>>

-----------------------------------------------------------------------------
(* applySysAction, mirrorGroupDoc.                                          *)

Fetches(r) ==
  /\ refresh[r].at = "fetch"
  /\ refresh' = [refresh EXCEPT ![r] = [at |-> "write", doc |-> server]]
  /\ UNCHANGED <<server, local, edits, notices, owed, recent, blame>>

(* An empty document takes the copy away.                                   *)
Writes(r) ==
  /\ refresh[r].at \in {"write", "delete"}
  /\ local' = refresh[r].doc
  /\ refresh' = [refresh EXCEPT ![r] = Off]
  /\ UNCHANGED <<server, edits, notices, owed, recent, blame>>

(* The fetch, in its 15 s, or a write; or the daemon closes.                *)
Fails(r) ==
  /\ refresh[r] # Off
  /\ refresh' = [refresh EXCEPT ![r] = Off] /\ blame' = blame \cup {"failed"}
  /\ UNCHANGED <<server, local, edits, notices, owed, recent>>

(* All of the daemon's, at once; its debounce is forgotten with it.         *)
DaemonCrashes ==
  /\ recent' = FALSE /\ refresh' = [r \in Refreshes |-> Off]
  /\ blame' = blame \cup (IF Running(Refreshes) = {} THEN {} ELSE {"failed"})
  /\ UNCHANGED <<server, local, edits, notices, owed>>

DocNext ==
  \/ ServerWrites \/ ServerClears \/ ServerDeletes \/ \E n \in owed : Redelivers(n)
  \/ Undecrypted \/ Loses \/ Claimed \/ Coalesced \/ WindowEnds \/ DaemonCrashes
  \/ \E r \in Refreshes : Fetches(r) \/ Writes(r) \/ Fails(r)

DocSpec == DocInit /\ [][DocNext]_docVars

-----------------------------------------------------------------------------
DocTypeOK ==
  /\ {server, local, edits} \subseteq 0..MaxEdits /\ recent \in BOOLEAN
  /\ notices \in Seq(Notices) /\ owed \subseteq Notices /\ blame \subseteq Causes

(* Once every notice is read and no refresh runs, GROUP.md is the server's, *)
(* "so it never goes stale after a server-side clear" (sysmsg.go:176),      *)
(* unless since the last lone refresh began a notice was spared by the      *)
(* debounce, lost, or not decrypted; a refresh failed or ran beside another; *)
(* or that refresh was for a deletion that the server had undone.           *)
StaleHasCause ==
  notices = <<>> /\ Running(Refreshes) = {} /\ blame = {} => local = server
=============================================================================
