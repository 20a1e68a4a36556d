------------------------------- MODULE Topics -------------------------------
(***************************************************************************)
(* The forum the bot posts to (telegram_bot/topics.py and its menus in     *)
(* telegram_bot/handlers/topics_settings.py): one group, a thread for each *)
(* kind of message, and the keys of messages that have been delivered      *)
(* there, so that they are not announced again.                            *)
(*                                                                         *)
(* Updates of the bot are handled one at a time, so that one operator is   *)
(* at work; beside him the dispatcher sends messages, which carry the      *)
(* place and the two revisions they were addressed under, and records them *)
(* when they are out.  Both write topics.json under one lock.  The group's *)
(* administrators delete threads, writes raise before or after their       *)
(* effect, requests are lost, and the process dies, at any point.          *)
(*                                                                         *)
(* There is one key per kind.  The 24 hours a key lives, the import of the *)
(* legacy cache and the settings of the group are left out.                *)
(***************************************************************************)
EXTENDS Integers, Sequences, FiniteSets

CONSTANTS
  Chats,       \* forum groups
  Kinds,       \* the TopicTypes but General
  Messages,    \* messages on their way
  MaxThreads,  \* bound: threads ever created
  MaxChanges,  \* bound: the operator's commands and deleted threads
  MaxFaults    \* bound: raising writes, lost requests, cancellations and crashes

General == "general"
AllKinds == Kinds \cup {General}
None == 0
Operator == "operator"
Nobody == "nobody"

VARIABLES
  mem,      \* what TopicsManager has published
  disk,     \* topics.json
  write,    \* who holds _write_lock, and the candidate it writes
  op,       \* the operator's command
  msg,      \* the messages on their way
  forum,    \* the threads created so far
  changes, faults,
  reached   \* ghost: where the key of each kind has arrived since it was last forgotten

vars == <<mem, disk, write, op, msg, forum, changes, faults, reached>>

NoThreads == [k \in AllKinds |-> None]
NoUpdate == [do |-> "none"]
NotWriting == [by |-> Nobody, to |-> NoThreads]
OpIdle == [pc |-> "idle", group |-> None, rev |-> 0, left |-> {}, kind |-> General, thread |-> None, update |-> NoUpdate]
NotSent == [at |-> "none"]

Init ==
  /\ mem = [on |-> FALSE, group |-> None, threads |-> NoThreads, cache |-> {}, mrev |-> 0, drev |-> 0]
  /\ disk = mem
  /\ write = NotWriting /\ op = OpIdle
  /\ msg = [m \in Messages |-> NotSent]
  /\ forum = <<>>
  /\ changes = 0 /\ faults = 0
  /\ reached = [k \in Kinds |-> {}]

Alive(t) == t # None /\ forum[t].alive

\* get_topic_id(kind) or get_topic_id(GENERAL)
Thread(s, k) == IF s.threads[k] # None THEN s.threads[k] ELSE s.threads[General]

----------------------------------------------------------------------------
(* What an update makes of a snapshot.                                     *)

\* The keys that go with a thread: General's may be the fallback of every kind.
Without(s, k) == [s EXCEPT !.cache = IF k = General THEN {} ELSE @ \ {k}]

\* MUTANT: the revision a message was addressed under is not compared.
SamePlace_ThreadOnly(s, u) == u.mrev = s.mrev /\ s.group = u.chat /\ Thread(s, u.kind) = u.thread
SamePlace(s, u) == u.mrev = s.mrev /\ u.drev = s.drev /\ s.group = u.chat /\ Thread(s, u.kind) = u.thread

mark_message_sent(s, u) ==
  IF s.on /\ s.group # None /\ SamePlace(s, u) THEN [s EXCEPT !.cache = @ \cup {u.kind}] ELSE s

set_enabled(s, u) ==
  IF s.on /\ ~u.on THEN [s EXCEPT !.on = FALSE, !.mrev = @ + 1, !.cache = {}] ELSE [s EXCEPT !.on = u.on]

set_group_id(s, u) ==
  IF s.group = u.group THEN s
  ELSE [s EXCEPT !.group = u.group, !.threads = NoThreads, !.cache = {}, !.drev = @ + 1]

clear_all_topics(s) ==
  IF s.threads = NoThreads /\ s.cache = {} THEN s ELSE [s EXCEPT !.threads = NoThreads, !.cache = {}, !.drev = @ + 1]

clear_message_cache(s) == [s EXCEPT !.cache = {}, !.drev = @ + 1]

Meant(s, u) == s.group = u.group /\ s.drev = u.rev

set_topic_id(s, u) ==
  IF Meant(s, u) /\ s.threads[u.kind] # u.thread
    THEN Without([s EXCEPT !.threads[u.kind] = u.thread, !.drev = @ + 1], u.kind) ELSE s

remove_topic(s, u) ==
  IF Meant(s, u) /\ s.threads[u.kind] # None
    THEN Without([s EXCEPT !.threads[u.kind] = None, !.drev = @ + 1], u.kind) ELSE s

Updated(s, u) ==
  CASE u.do = "mark"    -> mark_message_sent(s, u)
    [] u.do = "enable"  -> set_enabled(s, u)
    [] u.do = "group"   -> set_group_id(s, u)
    [] u.do = "clear"   -> clear_all_topics(s)
    [] u.do = "forget"  -> clear_message_cache(s)
    [] u.do = "install" -> set_topic_id(s, u)
    [] u.do = "remove"  -> remove_topic(s, u)

----------------------------------------------------------------------------
(* The operator's commands.                                                *)

CanChange == changes < MaxChanges
Matches == mem.group = op.group /\ mem.drev = op.rev

Press(u) ==
  /\ op.pc = "idle" /\ CanChange /\ changes' = changes + 1
  /\ op' = [OpIdle EXCEPT !.pc = "update", !.update = u]
  /\ UNCHANGED <<mem, disk, write, msg, forum, faults, reached>>

topics_toggle == (mem.on \/ mem.group # None) /\ Press([do |-> "enable", on |-> ~mem.on])
\* The group has been found fit by then (check_bot_permissions).
topics_set_group_receive == \E g \in Chats : Press([do |-> "group", group |-> g])
topics_clear == Press([do |-> "clear"])
topics_clear_cache == Press([do |-> "forget"])

\* topics_setup, and create_topics_for_group up to its loop.
topics_setup ==
  /\ op.pc = "idle" /\ mem.group # None /\ CanChange /\ changes' = changes + 1
  /\ op' = [OpIdle EXCEPT !.pc = "next", !.group = mem.group, !.rev = mem.drev, !.left = AllKinds]
  /\ UNCHANGED <<mem, disk, write, msg, forum, faults, reached>>

SetupFrame == UNCHANGED <<mem, disk, write, msg, changes, reached>>
Lost == faults < MaxFaults /\ faults' = faults + 1

\* The next kind, General first; the setup stops where the destination has changed.
NextKind ==
  /\ op.pc = "next"
  /\ IF op.left = {} \/ ~Matches THEN op' = OpIdle
     ELSE \E k \in IF General \in op.left THEN {General} ELSE op.left :
            op' = [op EXCEPT !.pc = IF mem.threads[k] # None THEN "verify" ELSE "create", !.kind = k, !.left = @ \ {k}]
  /\ SetupFrame /\ UNCHANGED <<forum, faults>>

\* MUTANT: any failure of the probe is taken for a missing thread.
Probe_AnyFailure(outcome) == IF outcome = "verified" THEN "next" ELSE "update"
\* edit_forum_topic: only what Telegram calls missing is missing.
Probe(outcome) == IF outcome = "missing" THEN "update" ELSE "next"

Verify ==
  /\ op.pc = "verify"
  /\ \E outcome \in {"verified", "missing", "unsure"} :
       /\ outcome = "unsure" \/ (outcome = "verified" <=> Alive(mem.threads[op.kind]))
       /\ IF outcome = "unsure" THEN Lost ELSE UNCHANGED faults
       /\ op' = IF ~Matches THEN OpIdle
                ELSE [op EXCEPT !.pc = Probe(outcome),
                                !.update = [do |-> "remove", kind |-> op.kind, group |-> op.group, rev |-> op.rev]]
  /\ SetupFrame /\ UNCHANGED forum

\* create_forum_topic, refused (the setup goes on without the thread) ...
CreateFails ==
  /\ op.pc = "create" /\ Lost
  /\ op' = [op EXCEPT !.pc = "next"]
  /\ SetupFrame /\ UNCHANGED forum

\* ... carried out with its answer lost, or answered.
Create ==
  /\ op.pc = "create" /\ Len(forum) < MaxThreads
  /\ forum' = Append(forum, [chat |-> op.group, alive |-> TRUE])
  /\ \/ /\ Lost /\ op' = [op EXCEPT !.pc = "next"]
     \/ /\ op' = IF ~Matches THEN OpIdle
                 ELSE [op EXCEPT !.pc = "update", !.thread = Len(forum'),
                                 !.update = [do |-> "install", kind |-> op.kind, thread |-> Len(forum'),
                                             group |-> op.group, rev |-> op.rev]]
        /\ UNCHANGED faults
  /\ SetupFrame

\* What the command does with the answer of _update: a setup goes on with the
\* revision its own change has made, and stops if there was no change.
OpAfter(changed) ==
  IF op.update.do \notin {"install", "remove"} \/ ~changed THEN OpIdle
  ELSE [op EXCEPT !.rev = @ + 1, !.pc = IF op.update.do = "remove" THEN "create" ELSE "next"]

----------------------------------------------------------------------------
(* Messages: send_logs and send_user_message address them, the dispatcher  *)
(* sends them one by one and settles them.                                 *)

Key(x) == <<x.kind, x.chat, x.thread, x.mrev, x.drev>>

\* is_message_sent, enqueue_send_batch: at most one batch of a namespace.
Announce(m, k) ==
  LET new == [at |-> "queued", kind |-> k, chat |-> mem.group, thread |-> Thread(mem, k), mrev |-> mem.mrev, drev |-> mem.drev] IN
  /\ msg[m].at = "none" /\ mem.on /\ mem.group # None /\ k \notin mem.cache
  /\ \A n \in Messages : msg[n].at # "none" => Key(msg[n]) # Key(new)
  /\ msg' = [msg EXCEPT ![m] = new]
  /\ UNCHANGED <<mem, disk, write, op, forum, changes, faults, reached>>

Sending(m) == msg[m].at = "queued" /\ \A n \in Messages : msg[n].at # "settle"

\* _observation_obsolete, or the thread is no more.
Dropped(m) ==
  /\ Sending(m)
  /\ ~mem.on \/ msg[m].mrev # mem.mrev \/ (msg[m].thread # None /\ ~Alive(msg[m].thread))
  /\ msg' = [msg EXCEPT ![m] = NotSent]
  /\ UNCHANGED <<mem, disk, write, op, forum, changes, faults, reached>>

\* The message is out; _settle_batch records it unless the group is another by then.
Deliver(m) ==
  /\ Sending(m) /\ mem.on /\ msg[m].mrev = mem.mrev /\ (msg[m].thread # None => Alive(msg[m].thread))
  /\ reached' = [reached EXCEPT ![msg[m].kind] = @ \cup {<<msg[m].chat, msg[m].thread>>}]
  /\ msg' = [msg EXCEPT ![m] = IF mem.group = msg[m].chat THEN [msg[m] EXCEPT !.at = "settle"] ELSE NotSent]
  /\ UNCHANGED <<mem, disk, write, op, forum, changes, faults>>

----------------------------------------------------------------------------
(* _update: the lock, the candidate, the write and its publication.        *)

Callers == Messages \cup {Operator}
Waits(c) == write.by # c /\ IF c = Operator THEN op.pc = "update" ELSE msg[c].at = "settle"
UpdateOf(c) ==
  IF c = Operator THEN op.update
  ELSE [do |-> "mark", kind |-> msg[c].kind, chat |-> msg[c].chat, thread |-> msg[c].thread,
        mrev |-> msg[c].mrev, drev |-> msg[c].drev]

Returns(c, changed) ==
  /\ op' = IF c = Operator THEN OpAfter(changed) ELSE op
  /\ msg' = IF c = Operator THEN msg ELSE [msg EXCEPT ![c] = NotSent]

_update(c) ==
  /\ write.by = Nobody /\ Waits(c)
  /\ LET candidate == Updated(mem, UpdateOf(c)) IN
       IF candidate = mem THEN Returns(c, FALSE) /\ UNCHANGED write
       ELSE write' = [by |-> c, to |-> candidate] /\ UNCHANGED <<op, msg>>
  /\ UNCHANGED <<mem, disk, forum, changes, faults, reached>>

\* A key is forgotten with the update that drops it, whether or not it was recorded by then.
Kept(u) == [k \in Kinds |-> IF k \in Updated([mem EXCEPT !.cache = Kinds], u).cache THEN reached[k] ELSE {}]

\* The write succeeds and is published, also under cancellation, which ends the call then.
Publish ==
  /\ write.by # Nobody
  /\ disk' = write.to /\ mem' = write.to /\ write' = NotWriting
  /\ reached' = Kept(UpdateOf(write.by))
  /\ \/ Returns(write.by, TRUE) /\ UNCHANGED faults
     \/ /\ write.by = Operator /\ Lost
        /\ op' = OpIdle /\ UNCHANGED msg
  /\ UNCHANGED <<forum, changes>>

\* It raises, before or after the file was replaced: the handler reports an error.
WriteFails ==
  /\ write.by # Nobody /\ Lost
  /\ disk' \in {disk, write.to} /\ write' = NotWriting
  /\ op' = IF write.by = Operator THEN OpIdle ELSE op
  /\ msg' = IF write.by = Operator THEN msg ELSE [msg EXCEPT ![write.by] = NotSent]
  /\ UNCHANGED <<mem, forum, changes, reached>>

----------------------------------------------------------------------------
\* An administrator of the group deletes a thread.
DeleteThread(t) ==
  /\ CanChange /\ changes' = changes + 1
  /\ forum[t].alive /\ forum' = [forum EXCEPT ![t].alive = FALSE]
  /\ UNCHANGED <<mem, disk, write, op, msg, faults, reached>>

\* The process dies, before or after a write in progress, and is started again (_load).
Restart ==
  /\ Lost
  /\ \/ disk' = disk /\ UNCHANGED reached
     \/ write.by # Nobody /\ disk' = write.to /\ reached' = Kept(UpdateOf(write.by))
  /\ mem' = disk' /\ write' = NotWriting /\ op' = OpIdle
  /\ msg' = [m \in Messages |-> NotSent]
  /\ UNCHANGED <<forum, changes>>

Commands == topics_toggle \/ topics_set_group_receive \/ topics_clear \/ topics_clear_cache \/ topics_setup
Setup == NextKind \/ Verify \/ CreateFails \/ Create

Next ==
  \/ Commands \/ Setup
  \/ \E m \in Messages : (\E k \in Kinds : Announce(m, k)) \/ Dropped(m) \/ Deliver(m)
  \/ \E c \in Callers : _update(c)
  \/ Publish \/ WriteFails
  \/ \E t \in 1..Len(forum) : DeleteThread(t)
  \/ Restart

Spec == Init /\ [][Next]_vars

----------------------------------------------------------------------------
(* Properties.                                                             *)

\* A key that keeps a message back stands for a message in the thread that messages
\* of its kind go to now, sent there since keys were last cleared: otherwise what
\* the operator has never seen would not be announced for a day.
KeysHold == \A k \in mem.cache : <<mem.group, Thread(mem, k)>> \in reached[k]

\* Threads belong to the group they are used in.
ThreadsLocal == \A k \in AllKinds : mem.threads[k] # None => forum[mem.threads[k]].chat = mem.group

\* "Creating only missing topics": a setup gives up no thread that exists.
LiveKept ==
  write.by = Operator /\ write.to = mem' /\ op.update.do \in {"install", "remove"} =>
    \A k \in AllKinds : mem'.threads[k] = mem.threads[k] \/ ~Alive(mem.threads[k])

\* Whatever changes between the addressing of a message and its record, and between
\* the steps of a setup, TopicsManager describes the forum as it is.
ForumRight == [][KeysHold' /\ ThreadsLocal' /\ LiveKept]_vars
=============================================================================
