------------------------------ MODULE Operator ------------------------------
(***************************************************************************)
(* An operator at the Telegram menus (telegram_bot/main.py,                *)
(* telegram_bot/input_owner.py and telegram_bot/handlers/*.py), and the    *)
(* REST API and the command line beside them (api_server.py, cli/).        *)
(*                                                                         *)
(* Updates of the bot are handled one at a time.  A button either changes  *)
(* a setting or turns its message into a prompt; a command may start a     *)
(* conversation; a typed value is taken by whoever owns the operator's     *)
(* input.  Old messages keep their buttons, values may be typed in another *)
(* topic or as a reply to an older prompt, messages cannot be edited and   *)
(* settings cannot be saved.                                               *)
(*                                                                         *)
(* Settings are one record; a list is a set, a table of limits a function  *)
(* with 0 for "no limit of its own".  Numbers, names and tokens are        *)
(* members of small sets.                                                  *)
(***************************************************************************)
EXTENDS Integers, Sequences, FiniteSets

CONSTANTS
  Users,          \* users of the panel
  Groups,         \* groups, panel admins, nodes and inbounds
  Places,         \* topics of the operator's chat
  MaxMessages,    \* bound: messages of the bot
  MaxFaults,      \* bound: saves and edits that fail
  Desks,          \* the parts of the menus a behaviour uses, one set of buttons each
  DegradedReads   \* may read_config answer with the defaults, the database being unreadable?

ASSUME OperatorAssumption ==
  /\ MaxMessages \in Nat /\ MaxFaults \in Nat
  /\ IsFiniteSet(Places) /\ MaxMessages >= Cardinality(Places)
  /\ "none" \notin Users \cup Groups
  /\ DegradedReads \in BOOLEAN

VARIABLES
  saved,     \* the settings in the database
  desk,      \* the buttons in use
  staff,     \* the bot's admins; the operator is Me
  input,     \* context.user_data: owner, waiting_for, selected_user, limit_group_id
  native,    \* the state of the operator's ConversationHandlers, 0 for END
  at,        \* message -> the place it was sent to (a sequence)
  asks,      \* message -> what it asks the operator for now
  newest,    \* place -> the menu or prompt shown there last, 0 for a plain message
  spent,     \* ghost: the prompts whose answer changed a setting
  meant,     \* ghost: what the last update asked to change, and the prompt it answered
  faults

vars == <<saved, desk, staff, input, native, at, asks, newest, spent, meant, faults>>

None == "none"
Me == "me"
Staff == {Me, "colleague"}
Numbers == {1, 2}
Steps == {"warning", "disable"}
DefaultLadder == <<"warning", "disable">>

Flows == {"special", "general", "except", "unexcept", "token"}      \* native conversations
NoOwner == [kind |-> None, flow |-> None, place |-> None, prompt |-> 0]
NoInput == [owner |-> NoOwner, waiting |-> None, selected |-> None, group |-> None]
NoAsk == [flow |-> None, target |-> None]
Nothing == [keys |-> {}, target |-> None, prompt |-> 0]

Defaults ==
  [special |-> [u \in Users |-> 0], excepted |-> {}, general |-> 1, token |-> None,
   groupsOn |-> FALSE, groupMode |-> "include", groups |-> {}, limits |-> [g \in Groups |-> 0],
   adminsOn |-> FALSE, adminMode |-> "include", admins |-> {},
   cdnNodes |-> {}, offNodes |-> {}, inbounds |-> {}, xff |-> TRUE,
   punish |-> TRUE, window |-> 1, ladder |-> <<>>,
   method |-> "status", banGroup |-> None, fallback |-> None,
   source |-> "logs", count |-> "device", pool |-> 1, freshness |-> 1,
   subnet |-> FALSE, trust |-> FALSE, details |-> TRUE, sync |-> 1, interval |-> 1, reenable |-> 1]

------------------------------------------------------------------------------
(* What each handler saves, from the settings r it has read: a function     *)
(* from the keys it writes to their new values.                             *)

NoChange == [k \in {} |-> None]
Saved(batch) == [k \in DOMAIN saved |-> IF k \in DOMAIN batch THEN batch[k] ELSE saved[k]]

Toggled(S, x) == IF x \in S THEN S \ {x} ELSE S \cup {x}

group_filter_toggle(r) == [groupsOn |-> ~r.groupsOn]
group_filter_mode(mode) == [groupMode |-> mode]
group_filter_set(S) == [groups |-> S]
group_filter_add(r, g) == [groups |-> r.groups \cup {g}]
group_filter_remove(r, g) == [groups |-> r.groups \ {g}]
toggle_group(r, g) == [groups |-> Toggled(r.groups, g)]

admin_filter_toggle(r) == [adminsOn |-> ~r.adminsOn]
admin_filter_mode(mode) == [adminMode |-> mode]
admin_filter_set(S) == [admins |-> S]
admin_filter_add(r, a) == [admins |-> r.admins \cup {a}]
admin_filter_remove(r, a) == [admins |-> r.admins \ {a}]
toggle_admin(r, a) == [admins |-> Toggled(r.admins, a)]

(* A limit of 0 removes the group's entry. *)
receive_group_limit(r, g, n) == [limits |-> [r.limits EXCEPT ![g] = n]]

node_cdn_toggle(r, n) == [cdnNodes |-> Toggled(r.cdnNodes, n)]
node_cdn_clear == [cdnNodes |-> {}]
node_disabled_toggle(r, n) == [offNodes |-> Toggled(r.offNodes, n)]
node_disabled_clear == [offNodes |-> {}]
cdn_mode_add(r, i) == [inbounds |-> r.inbounds \cup {i}]
cdn_mode_remove_inbound(r, i) == [inbounds |-> r.inbounds \ {i}]
cdn_mode_clear == [inbounds |-> {}]
cdn_use_xff_toggle(r) == [xff |-> ~r.xff]

(* An empty ladder stands for the default one when it is shown and when a step of it is *)
(* edited; a step is added to the stored one, and removed from it by its position.      *)
Ladder(r) == IF r.ladder = <<>> THEN DefaultLadder ELSE r.ladder
WithoutStep(s, i) == SubSeq(s, 1, i - 1) \o SubSeq(s, i + 1, Len(s))
punishment_add_step(r, s) == [ladder |-> Append(r.ladder, s)]
punishment_remove_step(r, i) ==
  [ladder |-> IF i \in DOMAIN r.ladder THEN WithoutStep(r.ladder, i) ELSE r.ladder]
punishment_update_step(r, i, s) ==
  [ladder |-> IF i \in DOMAIN Ladder(r) THEN [Ladder(r) EXCEPT ![i] = s] ELSE r.ladder]
punishment_reset_steps == [ladder |-> DefaultLadder]
punishment_toggle(r) == [punish |-> ~r.punish]
punishment_set_window_hours(n) == [window |-> n]

disable_by_status == [method |-> "status"]
select_disabled_group(g) == [method |-> "group", banGroup |-> g]
select_fallback_group(g) == [fallback |-> g]
clear_fallback_group == [fallback |-> None]

(* Counting by inbound needs the inbound names only logs have: each menu refuses the    *)
(* combination the other would complete.                                                *)
set_logs == [source |-> "logs"]
set_api(r) == [source |-> IF r.count = "inbound" THEN r.source ELSE "api"]
(* Mutant: the counting menu does not look at the source. *)
set_count_unguarded(r, mode) == [count |-> mode]
set_count(r, mode) == [count |-> IF mode = "inbound" /\ r.source = "api" THEN r.count ELSE mode]
subnet_toggle(r) == [subnet |-> ~r.subnet]
high_trust_toggle(r) == [trust |-> ~r.trust]
enhanced(on) == [details |-> on]
user_sync_interval(n) == [sync |-> n]
concurrency(n) == [pool |-> n]
freshness(n) == [freshness |-> n]
save_ipinfo_token(t) == [token |-> t]

save_general_limit(n) == [general |-> n]
(* settings_service: one row of the user, or nothing if the panel knows no such user. *)
set_special_limit(u, n) ==
  IF u \in Users THEN [special |-> [saved.special EXCEPT ![u] = n]] ELSE NoChange
set_exception(u, on) ==
  IF u \in Users THEN [excepted |-> IF on THEN saved.excepted \cup {u} ELSE saved.excepted \ {u}]
                 ELSE NoChange

------------------------------------------------------------------------------
(* input_owner.py: who may take the operator's next message.                *)

(* end_input: the owner goes, with its native conversation and what was prepared. *)
NativeEnded == IF input.owner.kind = "command" THEN [native EXCEPT ![input.owner.flow] = 0] ELSE native
InputEnded == input' = NoInput /\ native' = NativeEnded

(* bind_input *)
BoundTo(kind, flow, place, prompt) == [kind |-> kind, flow |-> flow, place |-> place, prompt |-> prompt]

(* InputOwner.matches: the same topic, and a reply only to the prompt itself. *)
(* Mutant: a reply to any prompt of the topic. *)
MatchesAnyReply(owner, place, reply) == owner.place = place
Matches(owner, place, reply) == owner.place = place /\ (reply = 0 \/ reply = owner.prompt)

(* accepts_inline(require_prompt): a choice button counts on the current prompt alone. *)
AcceptsChoice(m) ==
  /\ input.owner.kind = "inline" /\ input.owner.flow = "special_limit_choice"
  /\ input.owner.prompt = m /\ input.owner.place = at[m]

------------------------------------------------------------------------------
(* callback_query_handler.                                                  *)

Messages == DOMAIN at
admin == Me \in staff
CanFail == faults < MaxFaults
Show(m, ask) == asks' = [asks EXCEPT ![m] = ask] /\ newest' = [newest EXCEPT ![at[m]] = m] /\ at' = at

(* A message the bot sends in reply to an update of place p. *)
Reply(p, ask) ==
  /\ Len(at) < MaxMessages
  /\ at' = Append(at, p) /\ asks' = Append(asks, ask)
  /\ newest' = [newest EXCEPT ![p] = Len(at) + 1]

(* What the handlers leave in user_data, once its owner is bound to message m. *)
Bound(data, m) ==
  [data EXCEPT !.owner =
     IF data.waiting # None
       THEN BoundTo("inline", data.waiting, at[m], m)
       ELSE IF data.selected # None
              THEN BoundTo("inline", "special_limit_choice", at[m], m)
              ELSE NoOwner]

(* Ghost: an update that changes a setting, by an admin, was meant to change these. *)
Means(keys, target, prompt) ==
  /\ meant' = IF saved' = saved THEN Nothing
              ELSE [keys |-> IF admin THEN keys ELSE {}, target |-> target, prompt |-> prompt]

(* Ghost: message m was answered, or stands for something new. *)
Spends(m) == spent' = IF saved' # saved THEN spent \cup {m} ELSE spent

(* The settings a handler reads. *)
Reads == {saved} \cup IF DegradedReads THEN {Defaults} ELSE {}

(* A button of message m: the input it replaces, what its handler saves, what it leaves *)
(* in user_data and what the message asks for afterwards.  The save may fail, in whole  *)
(* or after its first key; the message may turn out not to be editable, and then the    *)
(* exception ends the input.                                                            *)
Partly(batch) == {[k \in K |-> batch[k]] : K \in SUBSET DOMAIN batch}

Answered(m, batch, data, ask, keys, target, prompt) ==
  /\ native' = NativeEnded
  /\ \/ /\ ~admin
        /\ input' = NoInput /\ Show(m, NoAsk) /\ UNCHANGED <<saved, faults>>
     \/ /\ admin
        /\ saved' = Saved(batch)
        /\ input' = Bound(data, m) /\ Show(m, ask) /\ UNCHANGED faults
     \/ /\ admin /\ CanFail /\ DOMAIN batch # {}
        /\ \E part \in Partly(batch) \ {batch} : saved' = Saved(part)
        /\ input' = Bound(data, m) /\ Show(m, NoAsk) /\ faults' = faults + 1
     \/ /\ admin /\ CanFail
        /\ saved' = Saved(batch)
        /\ input' = NoInput /\ faults' = faults + 1 /\ UNCHANGED <<at, asks, newest>>
  /\ Means(keys, target, prompt)
  /\ IF prompt = m THEN Spends(m) ELSE spent' = spent \ {m}
  /\ UNCHANGED <<desk, staff>>

Pressed(m, batch, data, ask, keys, target) == Answered(m, batch, data, ask, keys, target, 0)

(* A button that only saves, and one that opens a prompt. *)
Changes(m, batch, key, target) == Pressed(m, batch, NoInput, NoAsk, {key}, target)
Opens(m, data, flow, target) == Pressed(m, NoChange, data, [flow |-> flow, target |-> target], {}, target)
Waiting(flow) == [NoInput EXCEPT !.waiting = flow]

GroupButtons(m) ==
  \E r \in Reads :
    \/ Changes(m, group_filter_toggle(r), "groupsOn", None)
    \/ \E mode \in {"include", "exclude"} : Changes(m, group_filter_mode(mode), "groupMode", None)
    \/ \E g \in Groups :
         Changes(m, toggle_group(r, g), "groups", g)

QuotaButtons(m) ==
  \E g \in Groups : Opens(m, [Waiting("group_limit") EXCEPT !.group = g], "group_limit", g)

AdminButtons(m) ==
  \E r \in Reads :
    \/ Changes(m, admin_filter_toggle(r), "adminsOn", None)
    \/ \E mode \in {"include", "exclude"} : Changes(m, admin_filter_mode(mode), "adminMode", None)
    \/ \E a \in Groups : Changes(m, toggle_admin(r, a), "admins", a)

NodeButtons(m) ==
  \E r \in Reads :
    \/ Changes(m, node_cdn_clear, "cdnNodes", "all")
    \/ Changes(m, node_disabled_clear, "offNodes", "all")
    \/ \E n \in Groups : \/ Changes(m, node_cdn_toggle(r, n), "cdnNodes", n)
                         \/ Changes(m, node_disabled_toggle(r, n), "offNodes", n)

InboundButtons(m) ==
  \E r \in Reads :
    \/ Changes(m, cdn_mode_clear, "inbounds", "all")
    \/ Changes(m, cdn_use_xff_toggle(r), "xff", None)
    \/ Opens(m, Waiting("cdn_inbound"), "cdn_inbound", None)
    \/ \E i \in Groups : Changes(m, cdn_mode_remove_inbound(r, i), "inbounds", i)

LadderButtons(m) ==
  \E r \in Reads :
    \/ Changes(m, punishment_toggle(r), "punish", None)
    \/ \E n \in Numbers : Changes(m, punishment_set_window_hours(n), "window", None)
    \/ Changes(m, punishment_reset_steps, "ladder", "all")
    \/ \E s \in Steps : Len(r.ladder) < 3 /\ Changes(m, punishment_add_step(r, s), "ladder", None)
    \/ \E i \in 1..3 : Changes(m, punishment_remove_step(r, i), "ladder", None)
    \/ \E i \in 1..3, s \in Steps : Changes(m, punishment_update_step(r, i, s), "ladder", None)

(* The choice buttons carry no name: they act on the selected user, if the message is   *)
(* the prompt that selected them.  A save that fails leaves the selection.              *)
(* Mutant: the selection survives the choice. *)
ChoiceKept(m) ==
  /\ AcceptsChoice(m)
  /\ \E u \in {input.selected}, n \in Numbers :
       /\ saved' = Saved(set_special_limit(u, n))
       /\ Means({"special"}, asks[m].target, m) /\ Spends(m)
       /\ UNCHANGED <<desk, staff, input, native, at, asks, newest, faults>>
ChoiceButtons(m) ==
  /\ AcceptsChoice(m)
  /\ \E u \in {input.selected} :
       \/ \E n \in Numbers :
            \/ Answered(m, set_special_limit(u, n), NoInput, NoAsk, {"special"}, asks[m].target, m)
            \/ Answered(m, NoChange, [NoInput EXCEPT !.selected = u], asks[m], {}, None, m)
       \/ Opens(m, [Waiting("special_limit_number") EXCEPT !.selected = u],
                "special_limit_number", asks[m].target)

LimitButtons(m) ==
  \/ ChoiceButtons(m)
  \/ Pressed(m, NoChange, NoInput, NoAsk, {}, None)
  \/ Opens(m, Waiting("special_limit_username"), "special_limit_username", None)
  \/ \E u \in Users : Opens(m, [NoInput EXCEPT !.selected = u], "special_limit_choice", u)

(* The buttons of a violation notice and of the list of limits name their user. *)
NoticeButtons(m) ==
  \E u \in Users :
    \/ Opens(m, [Waiting("notification_custom_limit") EXCEPT !.selected = u], "notification_custom_limit", u)
    \/ \E n \in {0} \cup Numbers : Changes(m, set_special_limit(u, n), "special", u)

GeneralButtons(m) ==
  \/ Opens(m, Waiting("general_limit"), "general_limit", None)
  \/ \E n \in Numbers : Changes(m, save_general_limit(n), "general", None)

WhitelistButtons(m) ==
  \/ Opens(m, Waiting("except_user"), "except_user", None)
  \/ Opens(m, Waiting("remove_except_user"), "remove_except_user", None)
  \/ \E u \in Users : \/ Changes(m, set_exception(u, TRUE), "excepted", u)
                      \/ Changes(m, set_exception(u, FALSE), "excepted", u)

SourceButtons(m) ==
  \E r \in Reads :
    \/ Changes(m, set_logs, "source", None)
    \/ Changes(m, set_api(r), "source", None)
    \/ \E mode \in {"device", "ip", "inbound", "node"} : Changes(m, set_count(r, mode), "count", None)

PoolButtons(m) ==
  \/ Opens(m, Waiting("ip_source_concurrency"), "ip_source_concurrency", None)
  \/ Opens(m, Waiting("ip_source_freshness"), "ip_source_freshness", None)

DisplayButtons(m) ==
  \E r \in Reads :
    \/ Changes(m, subnet_toggle(r), "subnet", None)
    \/ Changes(m, high_trust_toggle(r), "trust", None)
    \/ \E on \in BOOLEAN : Changes(m, enhanced(on), "details", None)
    \/ \E n \in Numbers : Changes(m, user_sync_interval(n), "sync", None)

TokenButtons(m) == Opens(m, Waiting("ipinfo_token"), "ipinfo_token", None)

DisableButtons(m) ==
  \/ Changes(m, disable_by_status, "method", None)
  \/ Changes(m, clear_fallback_group, "fallback", None)
  \/ \E g \in Groups : \/ Pressed(m, select_disabled_group(g), NoInput, NoAsk, {"method", "banGroup"}, None)
                       \/ Changes(m, select_fallback_group(g), "fallback", None)

Press ==
  \E m \in Messages :
    \/ desk = "groups" /\ GroupButtons(m)
    \/ desk = "quota" /\ QuotaButtons(m)
    \/ desk = "admins" /\ AdminButtons(m)
    \/ desk = "nodes" /\ NodeButtons(m)
    \/ desk = "inbounds" /\ InboundButtons(m)
    \/ desk = "ladder" /\ LadderButtons(m)
    \/ desk = "limits" /\ LimitButtons(m)
    \/ desk = "notice" /\ NoticeButtons(m)
    \/ desk = "general" /\ GeneralButtons(m)
    \/ desk = "whitelist" /\ WhitelistButtons(m)
    \/ desk = "source" /\ SourceButtons(m)
    \/ desk = "pool" /\ PoolButtons(m)
    \/ desk = "token" /\ TokenButtons(m)
    \/ desk = "display" /\ DisplayButtons(m)
    \/ desk = "disable" /\ DisableButtons(m)

------------------------------------------------------------------------------
(* Typed values: text_message_handler, and the native conversations, which  *)
(* come first and stop the update.                                          *)

NotANumber == -1
Texts == {[num |-> n, name |-> None] : n \in {0} \cup Numbers} \cup
         {[num |-> NotANumber, name |-> x] : x \in Users \cup Groups}

(* special_limit_rejection, general_limit_rejection, isdecimal and > 0 *)
Accepted(t) == t.num >= 1

(* What the answer t to a prompt of this flow saves. *)
Answer(flow, t) ==
  CASE flow \in {"general_limit", "general"} -> IF Accepted(t) THEN save_general_limit(t.num) ELSE NoChange
    [] flow \in {"special_limit_number", "notification_custom_limit", "special"} ->
         IF Accepted(t) THEN set_special_limit(input.selected, t.num) ELSE NoChange
    [] flow \in {"except_user", "except"} -> set_exception(t.name, TRUE)
    [] flow \in {"remove_except_user", "unexcept"} -> set_exception(t.name, FALSE)
    [] flow = "group_limit" ->
         IF t.num >= 0 THEN receive_group_limit(saved, input.group, t.num) ELSE NoChange
    [] flow = "cdn_inbound" -> IF t.name \in Groups THEN cdn_mode_add(saved, t.name) ELSE NoChange
    [] flow = "ip_source_concurrency" ->
         IF t.num # NotANumber THEN concurrency(IF t.num < 1 THEN 1 ELSE t.num) ELSE NoChange
    [] flow = "ip_source_freshness" -> IF Accepted(t) THEN freshness(t.num) ELSE NoChange
    [] flow \in {"ipinfo_token", "token"} -> save_ipinfo_token(t.name)
    [] OTHER -> NoChange

(* ip_source_concurrency_handler, ip_source_freshness_handler: a value that is refused, *)
(* or a freshness that cannot be saved, is asked for again.                             *)
AskedAgain(flow, t) ==
  \/ flow = "ip_source_concurrency" /\ t.num = NotANumber
  \/ flow = "ip_source_freshness" /\ ~Accepted(t)

(* What the operator means: the message replied to, or the one shown last in this topic, *)
(* asks for a value of these keys; a prompt without a target takes it from the text.    *)
KeysOf(flow) ==
  CASE flow \in {"general_limit", "general"} -> {"general"}
    [] flow \in {"special_limit_number", "notification_custom_limit"} -> {"special"}
    [] flow \in {"except_user", "remove_except_user", "except", "unexcept"} -> {"excepted"}
    [] flow = "group_limit" -> {"limits"}
    [] flow = "cdn_inbound" -> {"inbounds"}
    [] flow = "ip_source_concurrency" -> {"pool"}
    [] flow = "ip_source_freshness" -> {"freshness"}
    [] flow \in {"ipinfo_token", "token"} -> {"token"}
    [] OTHER -> {}

MeansAnswer(p, reply, t) ==
  \E m \in {IF reply = 0 THEN newest[p] ELSE reply} :
    \E ask \in {IF m = 0 THEN NoAsk ELSE asks[m]} :
      Means(KeysOf(ask.flow), IF ask.target = None THEN t.name ELSE ask.target, m) /\ Spends(m)

(* The bot's plain reply: it asks for nothing and has no buttons the menus do not have. *)
Acknowledged(p) == newest' = [newest EXCEPT ![p] = 0] /\ UNCHANGED <<at, asks>>

(* A conversation ends with the answer, saved or not.  /set_special_limit takes the name first. *)
Continued(p, t) ==
  \E flow \in {input.owner.flow} :
    \/ /\ ~admin
       /\ InputEnded /\ Acknowledged(p) /\ UNCHANGED <<saved, faults>>
    \/ /\ admin /\ flow = "special" /\ native[flow] = 1
       /\ \/ /\ Reply(p, [flow |-> "special_limit_number", target |-> t.name])
             /\ input' = [input EXCEPT !.selected = t.name, !.owner.prompt = Len(at) + 1]
             /\ native' = [native EXCEPT ![flow] = 2]
             /\ UNCHANGED faults
          \/ /\ CanFail /\ faults' = faults + 1
             /\ InputEnded /\ UNCHANGED <<at, asks, newest>>
       /\ saved' = saved
    \/ /\ admin /\ ~(flow = "special" /\ native[flow] = 1)
       /\ \/ saved' = Saved(Answer(flow, t)) /\ UNCHANGED faults
          \/ CanFail /\ saved' = saved /\ faults' = faults + 1
       /\ InputEnded /\ Acknowledged(p)

(* The inline prompts. *)
Inline(p, t) ==
  \E flow \in {input.waiting} :
    \/ /\ ~admin
       /\ InputEnded /\ Acknowledged(p) /\ UNCHANGED <<saved, faults>>
    \/ /\ admin /\ flow = "special_limit_username"
       /\ \/ /\ Reply(p, [flow |-> "special_limit_choice", target |-> t.name])
             /\ input' = [NoInput EXCEPT !.selected = t.name,
                            !.owner = BoundTo("inline", "special_limit_choice", p, Len(at) + 1)]
             /\ UNCHANGED <<native, faults>>
          \/ CanFail /\ faults' = faults + 1 /\ InputEnded /\ UNCHANGED <<at, asks, newest>>
       /\ saved' = saved
    \/ /\ admin /\ AskedAgain(flow, t)
       /\ Reply(p, [flow |-> flow, target |-> None])
       /\ input' = [Waiting(flow) EXCEPT !.owner = BoundTo("inline", flow, p, Len(at) + 1)]
       /\ UNCHANGED <<saved, native, faults>>
    \/ /\ admin /\ flow # "special_limit_username" /\ ~AskedAgain(flow, t)
       /\ \/ saved' = Saved(Answer(flow, t)) /\ InputEnded /\ Acknowledged(p) /\ UNCHANGED faults
          \/ /\ CanFail /\ saved' = saved /\ faults' = faults + 1
             /\ IF flow = "ip_source_freshness"
                  THEN /\ Reply(p, [flow |-> flow, target |-> None])
                       /\ input' = [Waiting(flow) EXCEPT !.owner = BoundTo("inline", flow, p, Len(at) + 1)]
                       /\ native' = native
                  ELSE InputEnded /\ Acknowledged(p)

Type ==
  \E p \in Places, t \in Texts, reply \in {0} \cup Messages :
    /\ reply # 0 => at[reply] = p
    /\ \/ /\ input.owner.kind = "command" /\ Matches(input.owner, p, reply)
          /\ native[input.owner.flow] # 0
          /\ Continued(p, t)
       \/ /\ input.owner.kind = "inline" /\ Matches(input.owner, p, reply) /\ input.waiting # None
          /\ Inline(p, t)
    /\ MeansAnswer(p, reply, t)
    /\ UNCHANGED <<desk, staff>>

------------------------------------------------------------------------------
(* Commands.  Every one of them ends the pending input first.               *)

(* The entry point of a native conversation binds its owner, checks the admin and asks. *)
FlowOf(flow) == [flow |-> flow, target |-> None]

Start(p, flow) ==
  /\ \/ /\ admin
        /\ Reply(p, FlowOf(IF flow = "special" THEN "special_limit_username" ELSE flow))
        /\ input' = [NoInput EXCEPT !.owner = BoundTo("command", flow, p, Len(at) + 1)]
        /\ native' = [NativeEnded EXCEPT ![flow] = 1]
        /\ UNCHANGED faults
     \/ /\ ~admin /\ Acknowledged(p)
        /\ InputEnded /\ UNCHANGED faults
     \/ /\ admin /\ CanFail /\ faults' = faults + 1
        /\ InputEnded /\ UNCHANGED <<at, asks, newest>>
  /\ meant' = Nothing /\ UNCHANGED <<saved, spent>>

(* A command that saves at once, /cancel among them with nothing to save. *)
Direct(p, batch, key, target) ==
  /\ \/ admin /\ saved' = Saved(batch) /\ UNCHANGED faults
     \/ admin /\ CanFail /\ saved' = saved /\ faults' = faults + 1
     \/ ~admin /\ UNCHANGED <<saved, faults>>
  /\ InputEnded /\ Acknowledged(p)
  /\ Means({key}, target, 0) /\ UNCHANGED spent

FlowsOf(d) ==
  CASE d = "limits" -> {"special"}
    [] d = "general" -> {"general"}
    [] d = "whitelist" -> {"except", "unexcept"}
    [] d = "token" -> {"token"}
    [] OTHER -> {}

Command ==
  \E p \in Places :
    /\ \/ \E flow \in FlowsOf(desk) : Start(p, flow)
       \/ Direct(p, NoChange, None, None)
       \/ /\ desk = "groups"
          /\ \E r \in Reads :
               \/ Direct(p, group_filter_toggle(r), "groupsOn", None)
               \/ \E mode \in {"include", "exclude"} : Direct(p, group_filter_mode(mode), "groupMode", None)
               \/ \E S \in SUBSET Groups : Direct(p, group_filter_set(S), "groups", "all")
               \/ \E g \in Groups : \/ Direct(p, group_filter_add(r, g), "groups", g)
                                    \/ Direct(p, group_filter_remove(r, g), "groups", g)
       \/ /\ desk = "admins"
          /\ \E r \in Reads :
               \/ Direct(p, admin_filter_toggle(r), "adminsOn", None)
               \/ \E mode \in {"include", "exclude"} : Direct(p, admin_filter_mode(mode), "adminMode", None)
               \/ \E S \in SUBSET Groups : Direct(p, admin_filter_set(S), "admins", "all")
               \/ \E a \in Groups : \/ Direct(p, admin_filter_add(r, a), "admins", a)
                                    \/ Direct(p, admin_filter_remove(r, a), "admins", a)
       \/ /\ desk = "ladder"
          /\ \E r \in Reads : Direct(p, punishment_toggle(r), "punish", None)
    /\ UNCHANGED <<desk, staff>>

------------------------------------------------------------------------------
(* The others who change settings.                                          *)

(* A colleague adds an admin, or removes one that is not the last. *)
add_admin_to_config(x) == staff' = staff \cup {x}
remove_admin_from_config(x) == Cardinality(staff) > 1 /\ staff' = staff \ {x}

Colleague ==
  /\ "colleague" \in staff
  /\ \E x \in Staff : add_admin_to_config(x) \/ remove_admin_from_config(x)
  /\ meant' = Nothing
  /\ UNCHANGED <<saved, desk, input, native, at, asks, newest, spent, faults>>

(* The REST API and the command line write through settings_service: a user's row, or  *)
(* a setting; a value below its minimum is refused before.                             *)
ApiLimits == \E u \in Users, n \in {0} \cup Numbers : saved' = Saved(set_special_limit(u, n))
ApiExcept == \E u \in Users, on \in BOOLEAN : saved' = Saved(set_exception(u, on))
ApiConfig == \E n \in Numbers, key \in {"general", "interval", "reenable"} : saved' = Saved([k \in {key} |-> n])
CliLimits == \E u \in Users \cup Groups, n \in {0} \cup Numbers : saved' = Saved(set_special_limit(u, n))
CliExcept == \E u \in Users \cup Groups, on \in BOOLEAN : saved' = Saved(set_exception(u, on))
CliConfig == \E n \in Numbers, key \in {"general", "interval", "reenable"} : saved' = Saved([k \in {key} |-> n])

Remote ==
  /\ desk = "remote"
  /\ ApiLimits \/ ApiExcept \/ ApiConfig \/ CliLimits \/ CliExcept \/ CliConfig
  /\ meant' = [keys |-> DOMAIN saved, target |-> "all", prompt |-> 0]
  /\ UNCHANGED <<desk, staff, input, native, at, asks, newest, spent, faults>>

------------------------------------------------------------------------------
(* Each topic holds one menu of the bot. *)
Init ==
  /\ saved = Defaults /\ desk \in Desks /\ staff = Staff
  /\ input = NoInput /\ native = [f \in Flows |-> 0]
  /\ \E order \in {f \in [1..Cardinality(Places) -> Places] : \A p \in Places : \E i \in DOMAIN f : f[i] = p} :
       at = order /\ newest = [p \in Places |-> CHOOSE i \in DOMAIN order : order[i] = p]
  /\ asks = [i \in 1..Cardinality(Places) |-> NoAsk]
  /\ spent = {} /\ meant = Nothing /\ faults = 0

Next == Press \/ Type \/ Command \/ Colleague \/ Remote

Spec == Init /\ [][Next]_vars

------------------------------------------------------------------------------
(* An update changes what its button, command or prompt names and nothing else: a value *)
(* typed in another topic, as a reply to an older prompt, after another menu was opened *)
(* or by someone who is no longer an admin changes nothing, and a choice made on a      *)
(* stale message never reaches another user (accepts_inline, InputOwner.matches).       *)
AsMeant ==
  \A k \in DOMAIN saved :
    saved'[k] # saved[k] =>
      /\ k \in meant'.keys
      /\ \/ meant'.target = "all"
         \/ k \in {"special", "limits"} /\ \A x \in DOMAIN saved[k] \ {meant'.target} : saved'[k][x] = saved[k][x]
         \/ k \in {"excepted", "groups", "admins", "cdnNodes", "offNodes", "inbounds"} /\
              saved'[k] \ {meant'.target} = saved[k] \ {meant'.target}
         \/ k \notin {"special", "limits", "excepted", "groups", "admins", "cdnNodes", "offNodes", "inbounds"}

(* A prompt is answered once: after its answer has changed a setting, nothing typed for *)
(* it, and no second press on it, changes one again (text_message_handler ends the      *)
(* input, end_input ends the conversation behind it).                                   *)
OncePerPrompt == saved' # saved /\ meant'.prompt # 0 => meant'.prompt \notin spent

(* The settings change as the operator asked, and once. *)
AsAsked == [][AsMeant /\ OncePerPrompt]_vars

(* Two menus, one rule: counting by inbound and the API source, which has no inbound    *)
(* names, are never configured together, in whichever order the buttons are pressed.    *)
InboundNeedsLogs == ~(saved.count = "inbound" /\ saved.source = "api")
=============================================================================
