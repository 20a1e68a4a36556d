--------------------------- MODULE OperatorProofs ---------------------------
(***************************************************************************)
(* Proofs about Operator: that the settings change as the operator asked,  *)
(* and once, and that two menus keep their common rule, for any users,     *)
(* groups and topics and any number of messages and faults, as long as the *)
(* settings can be read.                                                   *)
(***************************************************************************)
EXTENDS Operator, FiniteSetTheorems, TLAPS

Numbered == {"special_limit_number", "notification_custom_limit"}
Prompts == Numbered \cup
  {"group_limit", "cdn_inbound", "special_limit_username", "general_limit", "except_user", "remove_except_user",
   "ip_source_concurrency", "ip_source_freshness", "ipinfo_token"}
Names == Users \cup Groups \cup {None}

OwnerTypes == [kind : {None, "inline", "command"}, flow : Prompts \cup Flows \cup {None, "special_limit_choice"},
               place : Places \cup {None}, prompt : Nat]
Inputs == [owner : OwnerTypes, waiting : Prompts \cup {None}, selected : Names, group : Groups \cup {None}]

Asks == [flow : Prompts \cup Flows \cup {None, "special_limit_choice"}, target : Names]

\* The state is well typed.
TypeOK ==
  /\ saved = [k \in DOMAIN saved |-> saved[k]] /\ DOMAIN saved = DOMAIN Defaults
  /\ input \in Inputs /\ native \in [Flows -> 0..2]
  /\ at \in Seq(Places) /\ DOMAIN asks = DOMAIN at /\ asks \in Seq(Asks)
  /\ newest \in [Places -> 0..Len(at)]
  /\ spent \subseteq 0..Len(at)

\* What an inline prompt asks for is what its handler will take the answer for.
InlineAsks(data, ask) ==
  \/ data.waiting = None /\ ask = [flow |-> "special_limit_choice", target |-> data.selected]
  \/ /\ data.waiting # None /\ ask.flow = data.waiting
     /\ ask.target = IF data.waiting \in Numbered THEN data.selected
                     ELSE IF data.waiting = "group_limit" THEN data.group ELSE None
     /\ data.waiting = "group_limit" => data.group \in Groups

\* The same of a conversation, by its state.
CommandAsks(flow, n, selected, ask) ==
  \/ flow # "special" /\ ask = FlowOf(flow)
  \/ flow = "special" /\ n = 1 /\ ask = FlowOf("special_limit_username")
  \/ flow = "special" /\ n # 1 /\ ask = [flow |-> "special_limit_number", target |-> selected]

\* Whoever owns the operator's input was asked last in its topic, by a prompt nobody
\* has answered, and for what the owner takes it for.
OwnerAsks ==
  input.owner.kind # None =>
    /\ input.owner.prompt \in 1..Len(at) /\ input.owner.prompt \notin spent
    /\ input.owner.place = at[input.owner.prompt] /\ newest[input.owner.place] = input.owner.prompt
    /\ input.owner.kind = "inline" =>
         /\ InlineAsks(input, asks[input.owner.prompt])
         /\ input.owner.flow = IF input.waiting = None THEN "special_limit_choice" ELSE input.waiting
    /\ input.owner.kind = "command" =>
         input.owner.flow \in Flows /\ input.waiting = None /\
         CommandAsks(input.owner.flow, native[input.owner.flow], input.selected, asks[input.owner.prompt])

IInv == TypeOK /\ OwnerAsks /\ InboundNeedsLogs

------------------------------------------------------------------------------
(* Saving a batch of settings.                                              *)

Tables == {"special", "limits"}
Lists == {"excepted", "groups", "admins", "cdnNodes", "offNodes", "inbounds"}

\* A value v of setting k that differs from the saved one for the target alone.
Within(k, v, target) ==
  \/ target = "all"
  \/ k \in Tables /\ \A x \in DOMAIN saved[k] \ {target} : v[x] = saved[k][x]
  \/ k \in Lists /\ v \ {target} = saved[k] \ {target}
  \/ k \notin Tables \cup Lists

After(batch, k) == {saved[k]} \cup IF k \in DOMAIN batch THEN {batch[k]} ELSE {}

\* A batch that changes what is meant, and keeps the rule of the two menus however much of it is saved.
Legal(batch, keys, target) ==
  /\ \A k \in DOMAIN batch : k \in keys /\ k \in DOMAIN saved /\ Within(k, batch[k], target)
  /\ \A c \in After(batch, "count"), s \in After(batch, "source") : ~(c = "inbound" /\ s = "api")

\* What a save, whole or in part, does to the settings.
SavedFrom(batch) ==
  /\ saved' = [k \in DOMAIN saved' |-> saved'[k]] /\ DOMAIN saved' = DOMAIN saved
  /\ \A k \in DOMAIN saved : saved'[k] # saved[k] => k \in DOMAIN batch /\ saved'[k] = batch[k]

LEMMA SavesWhole ==
  ASSUME TypeOK, NEW batch, DOMAIN batch \subseteq DOMAIN saved, saved' = Saved(batch)
  PROVE  SavedFrom(batch) /\ (DOMAIN batch = {} => saved' = saved)
BY DEF SavedFrom, Saved, TypeOK

LEMMA SavesPartly ==
  ASSUME TypeOK, NEW batch, DOMAIN batch \subseteq DOMAIN saved, NEW part \in Partly(batch), saved' = Saved(part)
  PROVE  SavedFrom(batch)
<1>1. PICK K \in SUBSET DOMAIN batch : part = [k \in K |-> batch[k]]
  BY DEF Partly
<1>2. DOMAIN part \subseteq DOMAIN saved /\ \A k \in DOMAIN part : k \in DOMAIN batch /\ part[k] = batch[k]
  BY <1>1
<1>3. SavedFrom(part)
  BY <1>2, SavesWhole
<1> QED BY <1>2, <1>3 DEF SavedFrom

LEMMA SavesNothing ==
  ASSUME TypeOK, NEW batch, saved' = saved
  PROVE  SavedFrom(batch)
BY DEF SavedFrom, TypeOK

\* A legal batch keeps the settings typed and the two menus' rule.
LEMMA LegalRule ==
  ASSUME TypeOK, InboundNeedsLogs, NEW batch, NEW keys, NEW target, Legal(batch, keys, target), SavedFrom(batch)
  PROVE  saved' = [k \in DOMAIN saved' |-> saved'[k]] /\ DOMAIN saved' = DOMAIN Defaults /\ InboundNeedsLogs'
<1>1. saved' = [k \in DOMAIN saved' |-> saved'[k]] /\ DOMAIN saved' = DOMAIN Defaults
  BY DEF SavedFrom, TypeOK
<1>2. "count" \in DOMAIN saved /\ "source" \in DOMAIN saved
  BY DEF TypeOK, Defaults
<1>3. saved'["count"] \in After(batch, "count") /\ saved'["source"] \in After(batch, "source")
  BY <1>2 DEF SavedFrom, After
<1>4. InboundNeedsLogs'
  BY <1>3 DEF Legal, InboundNeedsLogs
<1> QED BY <1>1, <1>4

\* What a legal batch, meant as the ghost says, does to the properties.
LEMMA LegalSave ==
  ASSUME TypeOK, InboundNeedsLogs, NEW batch, NEW keys, NEW target, NEW prompt,
         Legal(batch, keys, target), SavedFrom(batch), Means(keys, target, prompt),
         saved' # saved => admin
  PROVE  /\ saved' = [k \in DOMAIN saved' |-> saved'[k]] /\ DOMAIN saved' = DOMAIN Defaults
         /\ InboundNeedsLogs' /\ AsMeant
         /\ saved' # saved => meant'.prompt = prompt
         /\ saved' = saved => meant'.prompt = 0
<1>1. saved' = [k \in DOMAIN saved' |-> saved'[k]] /\ DOMAIN saved' = DOMAIN Defaults /\ InboundNeedsLogs'
  BY LegalRule
<1>3. ASSUME saved' # saved
      PROVE  meant' = [keys |-> keys, target |-> target, prompt |-> prompt]
  BY <1>3 DEF Means
<1>4. AsMeant
  <2> SUFFICES ASSUME NEW k \in DOMAIN saved, saved'[k] # saved[k]
               PROVE  k \in meant'.keys /\ Within(k, saved'[k], meant'.target)
    BY DEF AsMeant, Within, Tables, Lists
  <2>1. saved' # saved
    OBVIOUS
  <2>2. k \in DOMAIN batch /\ saved'[k] = batch[k]
    BY DEF SavedFrom
  <2>3. k \in keys /\ Within(k, batch[k], target)
    BY <2>2 DEF Legal
  <2> QED BY <2>1, <1>3, <2>2, <2>3
<1>5. saved' = saved => meant'.prompt = 0
  BY DEF Means, Nothing
<1> QED BY <1>1, <1>3, <1>4, <1>5
------------------------------------------------------------------------------
(* Updates and what they leave.                                             *)

\* The typing and ownership of the operator's input, once its settings are set aside.
Held == input \in Inputs /\ native \in [Flows -> 0..2]
Shown ==
  /\ at \in Seq(Places) /\ DOMAIN asks = DOMAIN at /\ asks \in Seq(Asks)
  /\ newest \in [Places -> 0..Len(at)] /\ spent \subseteq 0..Len(at)

LEMMA NoInputOwned ==
  NoInput \in Inputs /\ (input = NoInput => OwnerAsks) /\ (input' = NoInput => OwnerAsks')
<1>1. NoInput \in Inputs
  <2>1. NoOwner \in OwnerTypes
    BY DEF NoOwner, OwnerTypes
  <2> QED BY <2>1 DEF NoInput, Inputs, Names
<1>2. NoInput.owner.kind = None
  BY DEF NoInput, NoOwner
<1> QED BY <1>1, <1>2 DEF OwnerAsks

LEMMA NativeEndedTyped ==
  ASSUME TypeOK
  PROVE  NativeEnded \in [Flows -> 0..2]
<1>1. native \in [Flows -> 0..2]
  BY DEF TypeOK
<1>2. DOMAIN NativeEnded = Flows
  BY <1>1 DEF NativeEnded
<1>3. ASSUME NEW f \in Flows PROVE NativeEnded[f] \in 0..2
  BY <1>1 DEF NativeEnded
<1>4. NativeEnded = [f \in Flows |-> NativeEnded[f]]
  BY <1>1, <1>2 DEF NativeEnded
<1> QED BY <1>3, <1>4

LEMMA ShowKeeps ==
  ASSUME TypeOK, NEW m \in Messages, NEW ask \in Asks, Show(m, ask), spent' = spent \/ spent' = spent \ {m} \/ spent' = spent \cup {m}
  PROVE  /\ Shown' /\ at' = at /\ Len(at) \in Nat /\ m \in 1..Len(at) /\ at[m] \in Places
         /\ asks'[m] = ask /\ newest'[at[m]] = m
<1>1. Len(at) \in Nat /\ m \in 1..Len(at) /\ at[m] \in Places /\ DOMAIN asks = 1..Len(at)
  BY DEF TypeOK, Messages
<1>2. at' = at /\ asks' = [asks EXCEPT ![m] = ask] /\ newest' = [newest EXCEPT ![at[m]] = m]
  BY DEF Show
<1>3. asks' \in Seq(Asks) /\ DOMAIN asks' = DOMAIN at'
  BY <1>1, <1>2 DEF TypeOK
<1>4. newest' \in [Places -> 0..Len(at')]
  BY <1>1, <1>2 DEF TypeOK
<1>5. spent' \subseteq 0..Len(at')
  BY <1>1, <1>2 DEF TypeOK
<1>6. asks'[m] = ask /\ newest'[at[m]] = m
  BY <1>1, <1>2 DEF TypeOK
<1> QED BY <1>1, <1>2, <1>3, <1>4, <1>5, <1>6 DEF Shown, TypeOK

\* What a button leaves in the operator's data is owned by its message.
LEMMA BoundOwned ==
  ASSUME TypeOK, NEW m \in Messages, NEW data \in Inputs, NEW ask \in Asks, Show(m, ask),
         data.waiting # None \/ data.selected # None => InlineAsks(data, ask),
         input' = Bound(data, m), spent' \in {spent, spent \ {m}}, m \notin spent',
         data.owner = NoOwner
  PROVE  input' \in Inputs /\ OwnerAsks'
<1>1. /\ Shown' /\ at' = at /\ Len(at) \in Nat /\ m \in 1..Len(at) /\ at[m] \in Places
      /\ asks'[m] = ask /\ newest'[at[m]] = m
  BY ShowKeeps
<1>2. CASE data.waiting # None
  <2>1. input' = [data EXCEPT !.owner = BoundTo("inline", data.waiting, at[m], m)]
    BY <1>2 DEF Bound
  <2>2. BoundTo("inline", data.waiting, at[m], m) \in OwnerTypes
    BY <1>1, <1>2 DEF BoundTo, OwnerTypes, Inputs
  <2>3. input' \in Inputs
    BY <2>1, <2>2 DEF Inputs
  <2>4. /\ input'.owner = BoundTo("inline", data.waiting, at[m], m)
        /\ input'.waiting = data.waiting /\ input'.selected = data.selected /\ input'.group = data.group
    BY <2>1 DEF Inputs
  <2>5. InlineAsks(input', ask)
    BY <1>2, <2>4 DEF InlineAsks
  <2> QED BY <1>1, <1>2, <2>3, <2>4, <2>5 DEF OwnerAsks, BoundTo, None
<1>3. CASE data.waiting = None /\ data.selected # None
  <2>1. input' = [data EXCEPT !.owner = BoundTo("inline", "special_limit_choice", at[m], m)]
    BY <1>3 DEF Bound
  <2>2. BoundTo("inline", "special_limit_choice", at[m], m) \in OwnerTypes
    BY <1>1 DEF BoundTo, OwnerTypes
  <2>3. input' \in Inputs
    BY <2>1, <2>2 DEF Inputs
  <2>4. /\ input'.owner = BoundTo("inline", "special_limit_choice", at[m], m)
        /\ input'.waiting = data.waiting /\ input'.selected = data.selected /\ input'.group = data.group
    BY <2>1 DEF Inputs
  <2>5. InlineAsks(input', ask)
    BY <1>3, <2>4 DEF InlineAsks
  <2> QED BY <1>1, <1>3, <2>3, <2>4, <2>5 DEF OwnerAsks, BoundTo, None
<1>4. CASE data.waiting = None /\ data.selected = None
  <2>1. input' = [data EXCEPT !.owner = NoOwner]
    BY <1>4 DEF Bound
  <2>2. NoOwner \in OwnerTypes /\ NoOwner.kind = None
    BY DEF NoOwner, OwnerTypes
  <2>3. input' \in Inputs /\ input'.owner.kind = None
    BY <2>1, <2>2 DEF Inputs
  <2> QED BY <2>3 DEF OwnerAsks
<1> QED BY <1>2, <1>3, <1>4

\* A press of a button.
LEMMA AnsweredKeeps ==
  ASSUME IInv, NEW m \in Messages, NEW batch, NEW data \in Inputs, NEW ask \in Asks, NEW keys, NEW target,
         NEW prompt \in {0, m},
         Legal(batch, keys, target), data.owner = NoOwner,
         DOMAIN batch # {} => data = NoInput,
         data.waiting # None \/ data.selected # None => InlineAsks(data, ask),
         prompt = m => m \notin spent,
         Answered(m, batch, data, ask, keys, target, prompt)
  PROVE  IInv' /\ AsMeant /\ OncePerPrompt
<1> USE DEF IInv
<1>1. NoAsk \in Asks
  BY DEF NoAsk, Asks, Names
<1>2. native' \in [Flows -> 0..2]
  BY NativeEndedTyped DEF Answered
<1>3. m \in 1..Len(at) /\ Len(at) \in Nat
  BY DEF TypeOK, Messages
<1>4. DOMAIN batch \subseteq DOMAIN saved
  BY DEF Legal
<1>5. spent' = spent \/ spent' = spent \ {m} \/ spent' = spent \cup {m}
  BY DEF Answered, Spends
<1>6. SavedFrom(batch) /\ (saved' # saved => admin)
  BY <1>4, SavesWhole, SavesPartly, SavesNothing DEF Answered
<1>7. /\ saved' = [k \in DOMAIN saved' |-> saved'[k]] /\ DOMAIN saved' = DOMAIN Defaults
      /\ InboundNeedsLogs' /\ AsMeant
      /\ saved' # saved => meant'.prompt = prompt
      /\ saved' = saved => meant'.prompt = 0
  BY <1>6, LegalSave DEF Answered
<1>8. OncePerPrompt
  BY <1>7, <1>3 DEF OncePerPrompt
<1>9. CASE Show(m, NoAsk) /\ input' = NoInput
  <2>1. Shown'
    BY <1>1, <1>5, <1>9, ShowKeeps
  <2> QED BY <1>2, <1>7, <1>8, <1>9, <2>1, NoInputOwned DEF TypeOK, Shown
<1>10. CASE input' = NoInput /\ UNCHANGED <<at, asks, newest>>
  <2>1. Shown'
    BY <1>3, <1>5, <1>10 DEF Shown, TypeOK
  <2> QED BY <1>2, <1>7, <1>8, <1>10, <2>1, NoInputOwned DEF TypeOK, Shown
<1>11. CASE admin /\ saved' = Saved(batch) /\ input' = Bound(data, m) /\ Show(m, ask)
  <2>1. Shown'
    BY <1>5, <1>11, ShowKeeps
  <2>2. CASE DOMAIN batch = {}
    <3>1. saved' = saved
      BY <1>4, <1>11, <2>2, SavesWhole
    <3>2. spent' \in {spent, spent \ {m}} /\ m \notin spent'
      BY <3>1, <1>3 DEF Answered, Spends
    <3>3. input' \in Inputs /\ OwnerAsks'
      BY <1>11, <3>2, BoundOwned
    <3> QED BY <1>2, <1>7, <1>8, <2>1, <3>3 DEF TypeOK, Shown
  <2>3. CASE DOMAIN batch # {}
    <3>1. input' = [NoInput EXCEPT !.owner = NoOwner]
      BY <1>11, <2>3 DEF Bound, NoInput
    <3>2. input' = NoInput
      BY <3>1 DEF NoInput
    <3> QED BY <1>2, <1>7, <1>8, <2>1, <3>2, NoInputOwned DEF TypeOK, Shown
  <2> QED BY <2>2, <2>3
<1>12. CASE DOMAIN batch # {} /\ input' = Bound(data, m) /\ Show(m, NoAsk)
  <2>1. input' = [NoInput EXCEPT !.owner = NoOwner]
    BY <1>12 DEF Bound, NoInput
  <2>2. input' = NoInput
    BY <2>1 DEF NoInput
  <2> QED BY <1>9, <1>12, <2>2
<1> QED BY <1>9, <1>10, <1>11, <1>12 DEF Answered
------------------------------------------------------------------------------
(* The buttons, menu by menu.  The settings a handler reads are the saved   *)
(* ones, unless the database cannot be read.                                *)

Kept == IInv' /\ AsMeant /\ OncePerPrompt

LEMMA LegalNothing ==
  ASSUME TypeOK, InboundNeedsLogs, NEW keys, NEW target
  PROVE  Legal(NoChange, keys, target) /\ DOMAIN NoChange = {}
BY DEF Legal, NoChange, After, InboundNeedsLogs

\* One key other than those of the two menus' rule.
LEMMA LegalOne ==
  ASSUME TypeOK, InboundNeedsLogs, NEW key \in DOMAIN Defaults \ {"count", "source"}, NEW v, NEW target, NEW keys,
         key \in keys, Within(key, v, target), NEW batch, DOMAIN batch = {key}, batch[key] = v
  PROVE  Legal(batch, keys, target)
<1>1. \A k \in DOMAIN batch : k \in keys /\ k \in DOMAIN saved /\ Within(k, batch[k], target)
  BY DEF TypeOK
<1>2. After(batch, "count") = {saved["count"]} /\ After(batch, "source") = {saved["source"]}
  BY DEF After
<1> QED BY <1>1, <1>2 DEF Legal, InboundNeedsLogs

LEMMA ChangesKeeps ==
  ASSUME IInv, NEW m \in Messages, NEW batch, NEW key, NEW target, Legal(batch, {key}, target),
         Changes(m, batch, key, target)
  PROVE  Kept
<1>1. NoInput \in Inputs /\ NoInput.owner = NoOwner /\ ~(NoInput.waiting # None \/ NoInput.selected # None)
  BY NoInputOwned DEF NoInput
<1>2. NoAsk \in Asks
  BY DEF NoAsk, Asks, Names
<1>3. Answered(m, batch, NoInput, NoAsk, {key}, target, 0)
  BY DEF Changes, Pressed
<1>4. m # 0
  BY DEF Messages, IInv, TypeOK
<1> QED BY <1>1, <1>2, <1>3, <1>4, AnsweredKeeps DEF Kept

LEMMA OpensKeeps ==
  ASSUME IInv, NEW m \in Messages, NEW data \in Inputs, NEW flow, NEW target,
         [flow |-> flow, target |-> target] \in Asks, data.owner = NoOwner,
         InlineAsks(data, [flow |-> flow, target |-> target]), Opens(m, data, flow, target)
  PROVE  Kept
<1>1. Answered(m, NoChange, data, [flow |-> flow, target |-> target], {}, target, 0)
  BY DEF Opens, Pressed
<1>2. m # 0
  BY DEF Messages, IInv, TypeOK
<1>3. Legal(NoChange, {}, target) /\ DOMAIN NoChange = {}
  BY LegalNothing DEF IInv
<1> QED BY <1>1, <1>2, <1>3, AnsweredKeeps DEF Kept

LEMMA SettingKeys ==
  DOMAIN Defaults =
    {"special", "excepted", "general", "token", "groupsOn", "groupMode", "groups", "limits", "adminsOn", "adminMode",
     "admins", "cdnNodes", "offNodes", "inbounds", "xff", "punish", "window", "ladder", "method", "banGroup",
     "fallback", "source", "count", "pool", "freshness", "subnet", "trust", "details", "sync", "interval", "reenable"}
BY DEF Defaults

\* A switch: a setting that is no list and no table.
LEMMA LegalSwitch ==
  ASSUME IInv, NEW key \in DOMAIN Defaults \ ({"count", "source"} \cup Tables \cup Lists), NEW v, NEW target, NEW keys,
         key \in keys, NEW batch, DOMAIN batch = {key}, batch[key] = v
  PROVE  Legal(batch, keys, target)
<1>1. Within(key, v, target)
  BY DEF Within
<1> QED BY <1>1, LegalOne DEF IInv

\* A list one of whose members comes or goes.
LEMMA LegalList ==
  ASSUME IInv, NEW key \in Lists, NEW v, NEW x, v \ {x} = saved[key] \ {x}, NEW batch, DOMAIN batch = {key}, batch[key] = v
  PROVE  Legal(batch, {key}, x)
<1>1. Within(key, v, x)
  BY DEF Within
<1>2. key \in DOMAIN Defaults \ {"count", "source"}
  BY SettingKeys DEF Lists
<1> QED BY <1>1, <1>2, LegalOne DEF IInv

LEMMA LegalAll ==
  ASSUME IInv, NEW key \in Lists, NEW v, NEW batch, DOMAIN batch = {key}, batch[key] = v
  PROVE  Legal(batch, {key}, "all")
<1>1. Within(key, v, "all")
  BY DEF Within
<1>2. key \in DOMAIN Defaults \ {"count", "source"}
  BY SettingKeys DEF Lists
<1> QED BY <1>1, <1>2, LegalOne DEF IInv

LEMMA ToggledOne ==
  ASSUME NEW S, NEW x
  PROVE  Toggled(S, x) \ {x} = S \ {x}
BY DEF Toggled

LEMMA GroupButtonsKeep ==
  ASSUME IInv
  PROVE  /\ Legal(group_filter_toggle(saved), {"groupsOn"}, None)
         /\ \A mode \in {"include", "exclude"} : Legal(group_filter_mode(mode), {"groupMode"}, None)
         /\ \A g \in Groups : Legal(toggle_group(saved, g), {"groups"}, g)
<1>1. Legal(group_filter_toggle(saved), {"groupsOn"}, None)
  <2>1. DOMAIN group_filter_toggle(saved) = {"groupsOn"}
    BY DEF group_filter_toggle
  <2>2. "groupsOn" \in DOMAIN Defaults \ ({"count", "source"} \cup Tables \cup Lists)
    BY SettingKeys DEF Tables, Lists
  <2> QED BY <2>1, <2>2, LegalSwitch
<1>2. \A mode \in {"include", "exclude"} : Legal(group_filter_mode(mode), {"groupMode"}, None)
  BY LegalSwitch, SettingKeys DEF group_filter_mode, Tables, Lists
<1>3. \A g \in Groups : Legal(toggle_group(saved, g), {"groups"}, g)
  BY LegalList, ToggledOne DEF toggle_group, Lists
<1> QED BY <1>1, <1>2, <1>3
LEMMA AdminButtonsKeep ==
  ASSUME IInv
  PROVE  /\ Legal(admin_filter_toggle(saved), {"adminsOn"}, None)
         /\ \A mode \in {"include", "exclude"} : Legal(admin_filter_mode(mode), {"adminMode"}, None)
         /\ \A a \in Groups : Legal(toggle_admin(saved, a), {"admins"}, a)
<1>1. Legal(admin_filter_toggle(saved), {"adminsOn"}, None)
  BY LegalSwitch, SettingKeys DEF admin_filter_toggle, Tables, Lists
<1>2. \A mode \in {"include", "exclude"} : Legal(admin_filter_mode(mode), {"adminMode"}, None)
  BY LegalSwitch, SettingKeys DEF admin_filter_mode, Tables, Lists
<1>3. \A a \in Groups : Legal(toggle_admin(saved, a), {"admins"}, a)
  BY LegalList, ToggledOne DEF toggle_admin, Lists
<1> QED BY <1>1, <1>2, <1>3

LEMMA NodeButtonsKeep ==
  ASSUME IInv
  PROVE  /\ Legal(node_cdn_clear, {"cdnNodes"}, "all") /\ Legal(node_disabled_clear, {"offNodes"}, "all")
         /\ \A n \in Groups : Legal(node_cdn_toggle(saved, n), {"cdnNodes"}, n)
         /\ \A n \in Groups : Legal(node_disabled_toggle(saved, n), {"offNodes"}, n)
<1>1. Legal(node_cdn_clear, {"cdnNodes"}, "all") /\ Legal(node_disabled_clear, {"offNodes"}, "all")
  BY LegalAll DEF node_cdn_clear, node_disabled_clear, Lists
<1>2. \A n \in Groups : Legal(node_cdn_toggle(saved, n), {"cdnNodes"}, n)
  BY LegalList, ToggledOne DEF node_cdn_toggle, Lists
<1>3. \A n \in Groups : Legal(node_disabled_toggle(saved, n), {"offNodes"}, n)
  BY LegalList, ToggledOne DEF node_disabled_toggle, Lists
<1> QED BY <1>1, <1>2, <1>3

LEMMA InboundButtonsKeep ==
  ASSUME IInv
  PROVE  /\ Legal(cdn_mode_clear, {"inbounds"}, "all") /\ Legal(cdn_use_xff_toggle(saved), {"xff"}, None)
         /\ \A i \in Groups : Legal(cdn_mode_remove_inbound(saved, i), {"inbounds"}, i)
<1>1. Legal(cdn_mode_clear, {"inbounds"}, "all")
  BY LegalAll DEF cdn_mode_clear, Lists
<1>2. Legal(cdn_use_xff_toggle(saved), {"xff"}, None)
  BY LegalSwitch, SettingKeys DEF cdn_use_xff_toggle, Tables, Lists
<1>3. \A i \in Groups : Legal(cdn_mode_remove_inbound(saved, i), {"inbounds"}, i)
  <2> SUFFICES ASSUME NEW i \in Groups PROVE Legal(cdn_mode_remove_inbound(saved, i), {"inbounds"}, i)
    OBVIOUS
  <2>1. (saved["inbounds"] \ {i}) \ {i} = saved["inbounds"] \ {i}
    OBVIOUS
  <2> QED BY <2>1, LegalList DEF cdn_mode_remove_inbound, Lists
<1> QED BY <1>1, <1>2, <1>3

LEMMA LadderButtonsKeep ==
  ASSUME IInv
  PROVE  /\ Legal(punishment_toggle(saved), {"punish"}, None)
         /\ \A n \in Numbers : Legal(punishment_set_window_hours(n), {"window"}, None)
         /\ Legal(punishment_reset_steps, {"ladder"}, "all")
         /\ \A s \in Steps : Legal(punishment_add_step(saved, s), {"ladder"}, None)
         /\ \A i \in 1..3 : Legal(punishment_remove_step(saved, i), {"ladder"}, None)
         /\ \A i \in 1..3, s \in Steps : Legal(punishment_update_step(saved, i, s), {"ladder"}, None)
<1>1. /\ Legal(punishment_toggle(saved), {"punish"}, None) /\ Legal(punishment_reset_steps, {"ladder"}, "all")
      /\ \A n \in Numbers : Legal(punishment_set_window_hours(n), {"window"}, None)
  BY LegalSwitch, SettingKeys
    DEF punishment_toggle, punishment_set_window_hours, punishment_reset_steps, Tables, Lists
<1>2. \A s \in Steps : Legal(punishment_add_step(saved, s), {"ladder"}, None)
  BY LegalSwitch, SettingKeys DEF punishment_add_step, Tables, Lists
<1>3. \A i \in 1..3 : Legal(punishment_remove_step(saved, i), {"ladder"}, None)
  BY LegalSwitch, SettingKeys DEF punishment_remove_step, Tables, Lists
<1>4. \A i \in 1..3, s \in Steps : Legal(punishment_update_step(saved, i, s), {"ladder"}, None)
  BY LegalSwitch, SettingKeys DEF punishment_update_step, Tables, Lists
<1> QED BY <1>1, <1>2, <1>3, <1>4

\* A user's row changes the settings of that user alone.
LEMMA UserRowsKeep ==
  ASSUME IInv, NEW u, NEW n, NEW on
  PROVE  Legal(set_special_limit(u, n), {"special"}, u) /\ Legal(set_exception(u, on), {"excepted"}, u)
<1>1. CASE u \notin Users
  BY <1>1, LegalNothing DEF set_special_limit, set_exception, IInv
<1>2. CASE u \in Users
  <2>1. Legal(set_special_limit(u, n), {"special"}, u)
    <3>1. set_special_limit(u, n) = [special |-> [saved.special EXCEPT ![u] = n]]
      BY <1>2 DEF set_special_limit
    <3>2. \A x \in DOMAIN saved["special"] \ {u} : [saved.special EXCEPT ![u] = n][x] = saved["special"][x]
      OBVIOUS
    <3>3. Within("special", [saved.special EXCEPT ![u] = n], u)
      BY <3>2 DEF Within, Tables
    <3> QED BY <3>1, <3>3, LegalOne, SettingKeys DEF IInv
  <2>2. Legal(set_exception(u, on), {"excepted"}, u)
    <3>1. set_exception(u, on) = [excepted |-> IF on THEN saved.excepted \cup {u} ELSE saved.excepted \ {u}]
      BY <1>2 DEF set_exception
    <3>2. (IF on THEN saved.excepted \cup {u} ELSE saved.excepted \ {u}) \ {u} = saved["excepted"] \ {u}
      OBVIOUS
    <3> QED BY <3>1, <3>2, LegalList DEF Lists
  <2> QED BY <2>1, <2>2
<1> QED BY <1>1, <1>2

\* The two menus' rule: each button looks at the other's setting.
LEMMA SourceButtonsKeep ==
  ASSUME IInv
  PROVE  /\ Legal(set_logs, {"source"}, None) /\ Legal(set_api(saved), {"source"}, None)
         /\ \A mode \in {"device", "ip", "inbound", "node"} : Legal(set_count(saved, mode), {"count"}, None)
<1>1. "source" \in DOMAIN saved /\ "count" \in DOMAIN saved
  BY SettingKeys DEF IInv, TypeOK
<1>2. \A k \in {"source", "count"} : \A v : Within(k, v, None)
  BY DEF Within, Tables, Lists
<1>3. Legal(set_logs, {"source"}, None)
  BY <1>1, <1>2 DEF Legal, set_logs, After, IInv, InboundNeedsLogs
<1>4. Legal(set_api(saved), {"source"}, None)
  BY <1>1, <1>2 DEF Legal, set_api, After, IInv, InboundNeedsLogs
<1>5. \A mode \in {"device", "ip", "inbound", "node"} : Legal(set_count(saved, mode), {"count"}, None)
  BY <1>1, <1>2 DEF Legal, set_count, After, IInv, InboundNeedsLogs
<1> QED BY <1>3, <1>4, <1>5

LEMMA DisplayButtonsKeep ==
  ASSUME IInv
  PROVE  /\ Legal(subnet_toggle(saved), {"subnet"}, None) /\ Legal(high_trust_toggle(saved), {"trust"}, None)
         /\ \A on \in BOOLEAN : Legal(enhanced(on), {"details"}, None)
         /\ \A n \in Numbers : Legal(user_sync_interval(n), {"sync"}, None) /\ Legal(save_general_limit(n), {"general"}, None)
<1>1. Legal(subnet_toggle(saved), {"subnet"}, None) /\ Legal(high_trust_toggle(saved), {"trust"}, None)
  BY LegalSwitch, SettingKeys DEF subnet_toggle, high_trust_toggle, Tables, Lists
<1>2. \A on \in BOOLEAN : Legal(enhanced(on), {"details"}, None)
  BY LegalSwitch, SettingKeys DEF enhanced, Tables, Lists
<1>3. \A n \in Numbers : Legal(user_sync_interval(n), {"sync"}, None) /\ Legal(save_general_limit(n), {"general"}, None)
  BY LegalSwitch, SettingKeys DEF user_sync_interval, save_general_limit, Tables, Lists
<1> QED BY <1>1, <1>2, <1>3

LEMMA DisableButtonsKeep ==
  ASSUME IInv
  PROVE  /\ Legal(disable_by_status, {"method"}, None) /\ Legal(clear_fallback_group, {"fallback"}, None)
         /\ \A g \in Groups : Legal(select_disabled_group(g), {"method", "banGroup"}, None)
         /\ \A g \in Groups : Legal(select_fallback_group(g), {"fallback"}, None)
<1>1. Legal(disable_by_status, {"method"}, None) /\ Legal(clear_fallback_group, {"fallback"}, None)
  BY LegalSwitch, SettingKeys DEF disable_by_status, clear_fallback_group, Tables, Lists
<1>2. \A g \in Groups : Legal(select_fallback_group(g), {"fallback"}, None)
  BY LegalSwitch, SettingKeys DEF select_fallback_group, Tables, Lists
<1>3. \A g \in Groups : Legal(select_disabled_group(g), {"method", "banGroup"}, None)
  <2> SUFFICES ASSUME NEW g \in Groups PROVE Legal(select_disabled_group(g), {"method", "banGroup"}, None)
    OBVIOUS
  <2>1. DOMAIN select_disabled_group(g) = {"method", "banGroup"}
    BY DEF select_disabled_group
  <2>2. \A k \in {"method", "banGroup"} : \A v : Within(k, v, None) /\ k \in DOMAIN saved
    BY SettingKeys DEF Within, Tables, Lists, IInv, TypeOK
  <2>3. After(select_disabled_group(g), "count") = {saved["count"]}
        /\ After(select_disabled_group(g), "source") = {saved["source"]}
    BY <2>1 DEF After
  <2> QED BY <2>1, <2>2, <2>3 DEF Legal, IInv, InboundNeedsLogs
<1> QED BY <1>1, <1>2, <1>3
LEMMA WaitingRecord ==
  ASSUME NEW flow
  PROVE  Waiting(flow) = [owner |-> NoOwner, waiting |-> flow, selected |-> None, group |-> None]
BY DEF Waiting, NoInput

LEMMA PlainPrompt ==
  ASSUME NEW flow \in Prompts \ (Numbered \cup {"group_limit"})
  PROVE  /\ Waiting(flow) \in Inputs /\ Waiting(flow).owner = NoOwner
         /\ [flow |-> flow, target |-> None] \in Asks
         /\ InlineAsks(Waiting(flow), [flow |-> flow, target |-> None])
<1>1. Waiting(flow) = [owner |-> NoOwner, waiting |-> flow, selected |-> None, group |-> None]
  BY WaitingRecord
<1>2. Waiting(flow) \in Inputs
  BY <1>1, NoInputOwned DEF Inputs, NoInput
<1>3. flow # None
  BY DEF Prompts, Numbered, None
<1> QED BY <1>1, <1>2, <1>3 DEF InlineAsks, Asks, Names

LEMMA SelectedPrompt ==
  ASSUME NEW flow \in Numbered, NEW u \in Names
  PROVE  /\ [Waiting(flow) EXCEPT !.selected = u] \in Inputs
         /\ [Waiting(flow) EXCEPT !.selected = u].owner = NoOwner
         /\ [flow |-> flow, target |-> u] \in Asks
         /\ InlineAsks([Waiting(flow) EXCEPT !.selected = u], [flow |-> flow, target |-> u])
<1>1. [Waiting(flow) EXCEPT !.selected = u] = [owner |-> NoOwner, waiting |-> flow, selected |-> u, group |-> None]
  BY WaitingRecord
<1>2. [owner |-> NoOwner, waiting |-> flow, selected |-> u, group |-> None] \in Inputs
  BY NoInputOwned DEF Inputs, NoInput, Prompts
<1>3. flow # None /\ flow # "group_limit"
  BY DEF Numbered, None
<1> QED BY <1>1, <1>2, <1>3 DEF InlineAsks, Asks, Prompts

LEMMA GroupPrompt ==
  ASSUME NEW g \in Groups
  PROVE  /\ [Waiting("group_limit") EXCEPT !.group = g] \in Inputs
         /\ [Waiting("group_limit") EXCEPT !.group = g].owner = NoOwner
         /\ [flow |-> "group_limit", target |-> g] \in Asks
         /\ InlineAsks([Waiting("group_limit") EXCEPT !.group = g], [flow |-> "group_limit", target |-> g])
<1>1. [Waiting("group_limit") EXCEPT !.group = g] =
        [owner |-> NoOwner, waiting |-> "group_limit", selected |-> None, group |-> g]
  BY WaitingRecord
<1>2. [owner |-> NoOwner, waiting |-> "group_limit", selected |-> None, group |-> g] \in Inputs
  BY NoInputOwned DEF Inputs, NoInput, Prompts
<1> QED BY <1>1, <1>2 DEF InlineAsks, Asks, Prompts, Numbered, None, Names

LEMMA ChoicePrompt ==
  ASSUME NEW u \in Names
  PROVE  /\ [NoInput EXCEPT !.selected = u] \in Inputs /\ [NoInput EXCEPT !.selected = u].owner = NoOwner
         /\ [flow |-> "special_limit_choice", target |-> u] \in Asks
         /\ InlineAsks([NoInput EXCEPT !.selected = u], [flow |-> "special_limit_choice", target |-> u])
<1>1. [NoInput EXCEPT !.selected = u] = [owner |-> NoOwner, waiting |-> None, selected |-> u, group |-> None]
  BY DEF NoInput
<1>2. [owner |-> NoOwner, waiting |-> None, selected |-> u, group |-> None] \in Inputs
  BY NoInputOwned DEF Inputs, NoInput
<1> QED BY <1>1, <1>2 DEF InlineAsks, Asks

\* The choice buttons act on the user their message asks about, once.
LEMMA ChoiceKeeps ==
  ASSUME IInv, NEW m \in Messages, ChoiceButtons(m)
  PROVE  Kept
<1>1. input.owner.kind = "inline" /\ input.owner.prompt = m /\ input.owner.flow = "special_limit_choice"
  BY DEF ChoiceButtons, AcceptsChoice
<1>2. m \notin spent /\ InlineAsks(input, asks[m]) /\ (input.waiting # None => input.owner.flow = input.waiting)
  BY <1>1 DEF IInv, OwnerAsks, None
<1>3. input.selected \in Names /\ input.waiting \in Prompts \cup {None}
  BY DEF IInv, TypeOK, Inputs
<1>4. asks[m] = [flow |-> "special_limit_choice", target |-> input.selected]
  <2>1. "special_limit_choice" \notin Prompts
    BY DEF Prompts, Numbered
  <2> QED BY <1>1, <1>2, <1>3, <2>1 DEF InlineAsks
<1> DEFINE u == input.selected
<1>5. asks[m].target = u
  BY <1>4
<1>6. NoInput \in Inputs /\ NoInput.owner = NoOwner /\ ~(NoInput.waiting # None \/ NoInput.selected # None) /\ NoAsk \in Asks
  BY NoInputOwned DEF NoInput, NoAsk, Asks, Names
<1>7. ASSUME NEW n \in Numbers, Answered(m, set_special_limit(u, n), NoInput, NoAsk, {"special"}, u, m)
      PROVE  Kept
  <2>1. Legal(set_special_limit(u, n), {"special"}, u)
    BY UserRowsKeep
  <2> QED BY <1>2, <1>6, <1>7, <2>1, AnsweredKeeps DEF Kept
<1>8. ASSUME Answered(m, NoChange, [NoInput EXCEPT !.selected = u], asks[m], {}, None, m)
      PROVE  Kept
  <2>1. Legal(NoChange, {}, None) /\ DOMAIN NoChange = {}
    BY LegalNothing DEF IInv
  <2> QED BY <1>2, <1>3, <1>4, <1>8, <2>1, ChoicePrompt, AnsweredKeeps DEF Kept
<1>9. ASSUME Opens(m, [Waiting("special_limit_number") EXCEPT !.selected = u], "special_limit_number", u)
      PROVE  Kept
  BY <1>3, <1>9, SelectedPrompt, OpensKeeps DEF Numbered
<1> QED BY <1>5, <1>7, <1>8, <1>9 DEF ChoiceButtons

LEMMA LimitButtonsKeep ==
  ASSUME IInv, NEW m \in Messages, LimitButtons(m)
  PROVE  Kept
<1>1. CASE ChoiceButtons(m)
  BY <1>1, ChoiceKeeps
<1>2. CASE Pressed(m, NoChange, NoInput, NoAsk, {}, None)
  <2>1. NoInput \in Inputs /\ NoInput.owner = NoOwner /\ ~(NoInput.waiting # None \/ NoInput.selected # None) /\ NoAsk \in Asks
    BY NoInputOwned DEF NoInput, NoAsk, Asks, Names
  <2>2. Legal(NoChange, {}, None) /\ DOMAIN NoChange = {}
    BY LegalNothing DEF IInv
  <2>3. m # 0
    BY DEF Messages, IInv, TypeOK
  <2> QED BY <1>2, <2>1, <2>2, <2>3, AnsweredKeeps DEF Pressed, Kept
<1>3. CASE Opens(m, Waiting("special_limit_username"), "special_limit_username", None)
  BY <1>3, PlainPrompt, OpensKeeps DEF Prompts, Numbered
<1>4. ASSUME NEW u \in Users, Opens(m, [NoInput EXCEPT !.selected = u], "special_limit_choice", u)
      PROVE  Kept
  BY <1>4, ChoicePrompt, OpensKeeps DEF Names
<1> QED BY <1>1, <1>2, <1>3, <1>4 DEF LimitButtons

\* A press changes what its button names.
LEMMA PressKeeps ==
  ASSUME IInv, ~DegradedReads, Press
  PROVE  Kept
<1>1. Reads = {saved}
  BY DEF Reads
<1>2. PICK m \in Messages :
        \/ GroupButtons(m) \/ QuotaButtons(m) \/ AdminButtons(m) \/ NodeButtons(m) \/ InboundButtons(m)
        \/ LadderButtons(m) \/ LimitButtons(m) \/ NoticeButtons(m) \/ GeneralButtons(m) \/ WhitelistButtons(m)
        \/ SourceButtons(m) \/ PoolButtons(m) \/ TokenButtons(m) \/ DisplayButtons(m) \/ DisableButtons(m)
  BY DEF Press
<1>3. CASE GroupButtons(m)
  BY <1>1, <1>3, GroupButtonsKeep, ChangesKeeps DEF GroupButtons
<1>4. CASE QuotaButtons(m)
  BY <1>4, GroupPrompt, OpensKeeps DEF QuotaButtons
<1>5. CASE AdminButtons(m)
  BY <1>1, <1>5, AdminButtonsKeep, ChangesKeeps DEF AdminButtons
<1>6. CASE NodeButtons(m)
  BY <1>1, <1>6, NodeButtonsKeep, ChangesKeeps DEF NodeButtons
<1>7. CASE InboundButtons(m)
  <2>1. CASE Opens(m, Waiting("cdn_inbound"), "cdn_inbound", None)
    BY <2>1, PlainPrompt, OpensKeeps DEF Prompts, Numbered
  <2> QED BY <1>1, <1>7, <2>1, InboundButtonsKeep, ChangesKeeps DEF InboundButtons
<1>8. CASE LadderButtons(m)
  BY <1>1, <1>8, LadderButtonsKeep, ChangesKeeps DEF LadderButtons
<1>9. CASE LimitButtons(m)
  BY <1>9, LimitButtonsKeep
<1>10. CASE NoticeButtons(m)
  <2>1. ASSUME NEW u \in Users,
               Opens(m, [Waiting("notification_custom_limit") EXCEPT !.selected = u], "notification_custom_limit", u)
        PROVE  Kept
    BY <2>1, SelectedPrompt, OpensKeeps DEF Numbered, Names
  <2> QED BY <1>10, <2>1, UserRowsKeep, ChangesKeeps DEF NoticeButtons
<1>11. CASE GeneralButtons(m)
  <2>1. CASE Opens(m, Waiting("general_limit"), "general_limit", None)
    BY <2>1, PlainPrompt, OpensKeeps DEF Prompts, Numbered
  <2> QED BY <1>11, <2>1, DisplayButtonsKeep, ChangesKeeps DEF GeneralButtons
<1>12. CASE WhitelistButtons(m)
  <2>1. CASE Opens(m, Waiting("except_user"), "except_user", None)
    BY <2>1, PlainPrompt, OpensKeeps DEF Prompts, Numbered
  <2>2. CASE Opens(m, Waiting("remove_except_user"), "remove_except_user", None)
    BY <2>2, PlainPrompt, OpensKeeps DEF Prompts, Numbered
  <2> QED BY <1>12, <2>1, <2>2, UserRowsKeep, ChangesKeeps DEF WhitelistButtons
<1>13. CASE SourceButtons(m)
  BY <1>1, <1>13, SourceButtonsKeep, ChangesKeeps DEF SourceButtons
<1>14. CASE PoolButtons(m)
  BY <1>14, PlainPrompt, OpensKeeps DEF PoolButtons, Prompts, Numbered
<1>15. CASE TokenButtons(m)
  BY <1>15, PlainPrompt, OpensKeeps DEF TokenButtons, Prompts, Numbered
<1>16. CASE DisplayButtons(m)
  BY <1>1, <1>16, DisplayButtonsKeep, ChangesKeeps DEF DisplayButtons
<1>17. CASE DisableButtons(m)
  <2>1. ASSUME NEW g \in Groups, Pressed(m, select_disabled_group(g), NoInput, NoAsk, {"method", "banGroup"}, None)
        PROVE  Kept
    <3>1. NoInput \in Inputs /\ NoInput.owner = NoOwner /\ ~(NoInput.waiting # None \/ NoInput.selected # None) /\ NoAsk \in Asks
      BY NoInputOwned DEF NoInput, NoAsk, Asks, Names
    <3>2. m # 0
      BY DEF Messages, IInv, TypeOK
    <3> QED BY <2>1, <3>1, <3>2, DisableButtonsKeep, AnsweredKeeps DEF Pressed, Kept
  <2> QED BY <1>17, <2>1, DisableButtonsKeep, ChangesKeeps DEF DisableButtons
<1> QED BY <1>2, <1>3, <1>4, <1>5, <1>6, <1>7, <1>8, <1>9, <1>10, <1>11, <1>12, <1>13, <1>14, <1>15, <1>16, <1>17
------------------------------------------------------------------------------
(* Typed values.                                                            *)

\* The target an answer is taken to mean.
TargetOf(ask, t) == IF ask.target = None THEN t.name ELSE ask.target

LEMMA ReplyKeeps ==
  ASSUME TypeOK, NEW p \in Places, NEW ask \in Asks, Reply(p, ask), spent' = spent
  PROVE  /\ Shown' /\ Len(at) + 1 \in 1..Len(at') /\ Len(at) + 1 \notin spent'
         /\ at'[Len(at) + 1] = p /\ asks'[Len(at) + 1] = ask /\ newest'[p] = Len(at) + 1
<1>1. at' = Append(at, p) /\ asks' = Append(asks, ask) /\ newest' = [newest EXCEPT ![p] = Len(at) + 1]
  BY DEF Reply
<1>2. Len(at) \in Nat /\ Len(asks) = Len(at) /\ Len(at') = Len(at) + 1
  BY <1>1 DEF TypeOK
<1>3. at' \in Seq(Places) /\ asks' \in Seq(Asks) /\ DOMAIN asks' = DOMAIN at'
  BY <1>1, <1>2 DEF TypeOK
<1>4. newest \in [Places -> 0..Len(at')]
  BY <1>2 DEF TypeOK
<1>5. newest' \in [Places -> 0..Len(at')] /\ newest'[p] = Len(at) + 1
  BY <1>1, <1>2, <1>4
<1>6. spent' \subseteq 0..Len(at') /\ Len(at) + 1 \notin spent'
  BY <1>2 DEF TypeOK
<1>7. at'[Len(at) + 1] = p /\ asks'[Len(at) + 1] = ask
  BY <1>1, <1>2 DEF TypeOK
<1> QED BY <1>2, <1>3, <1>5, <1>6, <1>7 DEF Shown

LEMMA AcknowledgedKeeps ==
  ASSUME TypeOK, NEW p \in Places, Acknowledged(p), spent' \subseteq 0..Len(at)
  PROVE  Shown'
<1>1. newest' = [newest EXCEPT ![p] = 0] /\ at' = at /\ asks' = asks /\ Len(at) \in Nat
  BY DEF Acknowledged, TypeOK
<1>2. newest' \in [Places -> 0..Len(at)]
  BY <1>1 DEF TypeOK
<1> QED BY <1>1, <1>2 DEF Shown, TypeOK

\* An answer changes what its prompt asks for, of the user or group the prompt is about.
LEMMA NumberLegal ==
  ASSUME IInv, NEW t, NEW ask, ask.flow \in Numbered, ask.target = input.selected,
         NEW batch, batch = IF Accepted(t) THEN set_special_limit(input.selected, t.num) ELSE NoChange
  PROVE  Legal(batch, KeysOf(ask.flow), TargetOf(ask, t))
<1>1. KeysOf(ask.flow) = {"special"}
  BY DEF KeysOf, Numbered
<1>3. CASE input.selected = None
  <2>1. set_special_limit(input.selected, t.num) = NoChange
    BY <1>3, OperatorAssumption DEF set_special_limit, None
  <2> QED BY <2>1, LegalNothing DEF IInv
<1>4. CASE input.selected # None
  BY <1>1, <1>4, UserRowsKeep, LegalNothing DEF TargetOf, IInv
<1> QED BY <1>3, <1>4

LEMMA InlineLegal ==
  ASSUME IInv, NEW t \in Texts, NEW ask, InlineAsks(input, ask), input.waiting # None
  PROVE  Legal(Answer(input.waiting, t), KeysOf(ask.flow), TargetOf(ask, t))
<1> DEFINE flow == input.waiting
<1>1. flow \in Prompts /\ ask.flow = flow
  BY DEF InlineAsks, IInv, TypeOK, Inputs
<1>2. flow \notin Numbered \cup {"group_limit"} => TargetOf(ask, t) = t.name
  BY DEF InlineAsks, TargetOf
<1>3. flow \in Numbered => ask.target = input.selected
  BY DEF InlineAsks
<1>4. flow = "group_limit" => ask.target = input.group /\ input.group \in Groups
  BY DEF InlineAsks, Numbered
<1>5. Legal(NoChange, KeysOf(ask.flow), TargetOf(ask, t))
  BY LegalNothing DEF IInv
<1>6. CASE flow = "general_limit"
  <2>1. Answer(flow, t) = IF Accepted(t) THEN save_general_limit(t.num) ELSE NoChange
    BY <1>6 DEF Answer
  <2>2. Legal(save_general_limit(t.num), {"general"}, TargetOf(ask, t))
    BY LegalSwitch, SettingKeys DEF save_general_limit, Tables, Lists
  <2>3. KeysOf(ask.flow) = {"general"}
    BY <1>1, <1>6 DEF KeysOf
  <2> QED BY <1>5, <2>1, <2>2, <2>3
<1>7. CASE flow \in Numbered
  <2>1. Answer(flow, t) = IF Accepted(t) THEN set_special_limit(input.selected, t.num) ELSE NoChange
    BY <1>7 DEF Answer, Numbered
  <2> QED BY <1>1, <1>3, <1>7, <2>1, NumberLegal
<1>8. CASE flow \in {"except_user", "remove_except_user"}
  <2>1. Answer(flow, t) \in {set_exception(t.name, TRUE), set_exception(t.name, FALSE)}
    BY <1>8 DEF Answer
  <2>2. KeysOf(ask.flow) = {"excepted"} /\ TargetOf(ask, t) = t.name
    BY <1>1, <1>2, <1>8 DEF KeysOf, Numbered
  <2> QED BY <2>1, <2>2, UserRowsKeep
<1>9. CASE flow = "group_limit"
  <2>1. Answer(flow, t) = IF t.num >= 0 THEN receive_group_limit(saved, input.group, t.num) ELSE NoChange
    BY <1>9 DEF Answer
  <2>2. KeysOf(ask.flow) = {"limits"}
    BY <1>1, <1>9 DEF KeysOf
  <2>3. TargetOf(ask, t) = input.group
    BY <1>4, <1>9, OperatorAssumption DEF TargetOf, None
  <2>4. receive_group_limit(saved, input.group, t.num) = [limits |-> [saved.limits EXCEPT ![input.group] = t.num]]
    BY DEF receive_group_limit
  <2>5. \A x \in DOMAIN saved["limits"] \ {input.group} :
          [saved.limits EXCEPT ![input.group] = t.num][x] = saved["limits"][x]
    OBVIOUS
  <2>6. Within("limits", [saved.limits EXCEPT ![input.group] = t.num], input.group)
    BY <2>5 DEF Within, Tables
  <2>7. Legal(receive_group_limit(saved, input.group, t.num), {"limits"}, input.group)
    BY <2>4, <2>6, LegalOne, SettingKeys DEF IInv
  <2> QED BY <1>5, <2>1, <2>2, <2>3, <2>7
<1>10. CASE flow = "cdn_inbound"
  <2>1. Answer(flow, t) = IF t.name \in Groups THEN cdn_mode_add(saved, t.name) ELSE NoChange
    BY <1>10 DEF Answer
  <2>2. KeysOf(ask.flow) = {"inbounds"} /\ TargetOf(ask, t) = t.name
    BY <1>1, <1>2, <1>10 DEF KeysOf, Numbered
  <2>3. (saved["inbounds"] \cup {t.name}) \ {t.name} = saved["inbounds"] \ {t.name}
    OBVIOUS
  <2>4. Legal(cdn_mode_add(saved, t.name), {"inbounds"}, t.name)
    BY <2>3, LegalList DEF cdn_mode_add, Lists
  <2> QED BY <1>5, <2>1, <2>2, <2>4
<1>11. CASE flow \in {"ip_source_concurrency", "ip_source_freshness", "ipinfo_token"}
  <2>1. \A n : /\ Legal(concurrency(n), {"pool"}, TargetOf(ask, t)) /\ Legal(freshness(n), {"freshness"}, TargetOf(ask, t))
               /\ Legal(save_ipinfo_token(n), {"token"}, TargetOf(ask, t))
    BY LegalSwitch, SettingKeys DEF concurrency, freshness, save_ipinfo_token, Tables, Lists
  <2>2. CASE flow = "ip_source_concurrency"
    BY <1>1, <1>5, <2>1, <2>2 DEF Answer, KeysOf
  <2>3. CASE flow = "ip_source_freshness"
    BY <1>1, <1>5, <2>1, <2>3 DEF Answer, KeysOf
  <2>4. CASE flow = "ipinfo_token"
    BY <1>1, <2>1, <2>4 DEF Answer, KeysOf
  <2> QED BY <1>11, <2>2, <2>3, <2>4
<1>12. CASE flow = "special_limit_username"
  BY <1>5, <1>12 DEF Answer
<1> QED BY <1>1, <1>6, <1>7, <1>8, <1>9, <1>10, <1>11, <1>12 DEF Prompts

LEMMA CommandLegal ==
  ASSUME IInv, NEW t \in Texts, NEW ask, NEW flow \in Flows, CommandAsks(flow, native[flow], input.selected, ask),
         ~(flow = "special" /\ native[flow] = 1)
  PROVE  Legal(Answer(flow, t), KeysOf(ask.flow), TargetOf(ask, t))
<1>1. Legal(NoChange, KeysOf(ask.flow), TargetOf(ask, t))
  BY LegalNothing DEF IInv
<1>2. CASE flow = "special"
  <2>1. ask = [flow |-> "special_limit_number", target |-> input.selected]
    BY <1>2 DEF CommandAsks
  <2>2. Answer(flow, t) = IF Accepted(t) THEN set_special_limit(input.selected, t.num) ELSE NoChange
    BY <1>2 DEF Answer
  <2> QED BY <2>1, <2>2, NumberLegal DEF Numbered
<1>3. flow # "special" => ask.flow = flow /\ TargetOf(ask, t) = t.name
  BY DEF CommandAsks, FlowOf, TargetOf
<1>4. CASE flow = "general"
  <2>1. Legal(save_general_limit(t.num), {"general"}, TargetOf(ask, t))
    BY LegalSwitch, SettingKeys DEF save_general_limit, Tables, Lists
  <2> QED BY <1>1, <1>3, <1>4, <2>1 DEF Answer, KeysOf
<1>5. CASE flow \in {"except", "unexcept"}
  <2>1. Answer(flow, t) \in {set_exception(t.name, TRUE), set_exception(t.name, FALSE)}
    BY <1>5 DEF Answer
  <2>2. KeysOf(ask.flow) = {"excepted"}
    BY <1>3, <1>5 DEF KeysOf
  <2> QED BY <1>3, <1>5, <2>1, <2>2, UserRowsKeep
<1>6. CASE flow = "token"
  <2>1. Legal(save_ipinfo_token(t.name), {"token"}, TargetOf(ask, t))
    BY LegalSwitch, SettingKeys DEF save_ipinfo_token, Tables, Lists
  <2> QED BY <1>3, <1>6, <2>1 DEF Answer, KeysOf
<1> QED BY <1>2, <1>4, <1>5, <1>6 DEF Flows
\* The bookkeeping of an answer to prompt m: what was meant, and that m is spent if a setting changed.
LEMMA AnswerKeeps ==
  ASSUME IInv, NEW m \in 1..Len(at), m \notin spent, NEW batch, NEW keys, NEW target,
         Legal(batch, keys, target), saved' = saved \/ (admin /\ saved' = Saved(batch)),
         Means(keys, target, m), Spends(m)
  PROVE  /\ saved' = [k \in DOMAIN saved' |-> saved'[k]] /\ DOMAIN saved' = DOMAIN Defaults
         /\ InboundNeedsLogs' /\ AsMeant /\ OncePerPrompt
         /\ spent' \subseteq 0..Len(at) /\ (saved' = saved => spent' = spent)
<1>1. DOMAIN batch \subseteq DOMAIN saved
  BY DEF Legal
<1>2. SavedFrom(batch) /\ (saved' # saved => admin)
  BY <1>1, SavesWhole, SavesNothing DEF IInv
<1>3. /\ saved' = [k \in DOMAIN saved' |-> saved'[k]] /\ DOMAIN saved' = DOMAIN Defaults
      /\ InboundNeedsLogs' /\ AsMeant
      /\ saved' # saved => meant'.prompt = m
      /\ saved' = saved => meant'.prompt = 0
  BY <1>2, LegalSave DEF IInv
<1>4. OncePerPrompt
  BY <1>3 DEF OncePerPrompt
<1>5. spent' \subseteq 0..Len(at) /\ (saved' = saved => spent' = spent)
  BY DEF Spends, IInv, TypeOK
<1> QED BY <1>3, <1>4, <1>5

LEMMA InputEndedKeeps ==
  ASSUME TypeOK, InputEnded
  PROVE  input' = NoInput /\ input' \in Inputs /\ native' \in [Flows -> 0..2] /\ OwnerAsks'
BY NoInputOwned, NativeEndedTyped DEF InputEnded

\* A typed value answers the prompt its owner asked with.
LEMMA AnsweredPrompt ==
  ASSUME IInv, NEW p \in Places, NEW t \in Texts, NEW reply \in {0} \cup Messages,
         input.owner.kind # None, Matches(input.owner, p, reply), MeansAnswer(p, reply, t)
  PROVE  LET m == input.owner.prompt IN
         /\ m \in 1..Len(at) /\ m \notin spent /\ input.owner.place = p
         /\ Means(KeysOf(asks[m].flow), TargetOf(asks[m], t), m) /\ Spends(m)
<1> DEFINE m == input.owner.prompt
<1>1. m \in 1..Len(at) /\ m \notin spent /\ input.owner.place = p /\ newest[p] = m
  BY DEF IInv, OwnerAsks, Matches
<1>2. m # 0 /\ (IF reply = 0 THEN newest[p] ELSE reply) = m
  BY <1>1 DEF Matches, IInv, TypeOK
<1>3. Means(KeysOf(asks[m].flow), TargetOf(asks[m], t), m) /\ Spends(m)
  BY <1>2 DEF MeansAnswer, TargetOf
<1> QED BY <1>1, <1>3

\* An answer to a native conversation.
LEMMA ContinuedKeeps ==
  ASSUME IInv, NEW p \in Places, NEW t \in Texts, NEW reply \in {0} \cup Messages,
         input.owner.kind = "command", Matches(input.owner, p, reply), native[input.owner.flow] # 0,
         Continued(p, t), MeansAnswer(p, reply, t)
  PROVE  Kept
<1> DEFINE m == input.owner.prompt
           flow == input.owner.flow
<1>1. /\ m \in 1..Len(at) /\ m \notin spent /\ input.owner.place = p
      /\ Means(KeysOf(asks[m].flow), TargetOf(asks[m], t), m) /\ Spends(m)
  BY AnsweredPrompt DEF None
<1>2. flow \in Flows /\ input.waiting = None /\ CommandAsks(flow, native[flow], input.selected, asks[m])
  BY DEF IInv, OwnerAsks, None
<1>3. t.name \in Names
  BY DEF Texts, Names
<1>4. ASSUME saved' = saved
      PROVE  /\ saved' = [k \in DOMAIN saved' |-> saved'[k]] /\ DOMAIN saved' = DOMAIN Defaults
             /\ InboundNeedsLogs' /\ AsMeant /\ OncePerPrompt /\ spent' = spent /\ spent' \subseteq 0..Len(at)
  BY <1>1, <1>4, AnswerKeeps, LegalNothing DEF IInv, AsMeant, OncePerPrompt, Spends, TypeOK
<1>5. CASE saved' = saved /\ InputEnded /\ Acknowledged(p)
  BY <1>4, <1>5, InputEndedKeeps, AcknowledgedKeeps DEF Kept, IInv, TypeOK, Shown
<1>6. CASE saved' = saved /\ InputEnded /\ UNCHANGED <<at, asks, newest>>
  <2>1. Shown'
    BY <1>4, <1>6 DEF Shown, IInv, TypeOK
  <2> QED BY <1>4, <1>6, <2>1, InputEndedKeeps DEF Kept, IInv, TypeOK, Shown
<1>7. CASE /\ saved' = saved /\ flow = "special" /\ native[flow] = 1
           /\ Reply(p, [flow |-> "special_limit_number", target |-> t.name])
           /\ input' = [input EXCEPT !.selected = t.name, !.owner.prompt = Len(at) + 1]
           /\ native' = [native EXCEPT ![flow] = 2]
  <2> DEFINE ask == [flow |-> "special_limit_number", target |-> t.name]
  <2>1. ask \in Asks
    BY <1>3 DEF Asks, Prompts, Numbered
  <2>2. /\ Shown' /\ Len(at) + 1 \in 1..Len(at') /\ Len(at) + 1 \notin spent'
        /\ at'[Len(at) + 1] = p /\ asks'[Len(at) + 1] = ask /\ newest'[p] = Len(at) + 1
    BY <1>4, <1>7, <2>1, ReplyKeeps DEF IInv
  <2>3. input \in Inputs /\ input.owner \in OwnerTypes /\ Len(at) + 1 \in Nat
    BY DEF IInv, TypeOK, Inputs
  <2>4. [input.owner EXCEPT !.prompt = Len(at) + 1] \in OwnerTypes
    BY <2>3 DEF OwnerTypes
  <2>5. input' = [owner |-> [input.owner EXCEPT !.prompt = Len(at) + 1], waiting |-> input.waiting,
                  selected |-> t.name, group |-> input.group]
    BY <1>7, <2>3 DEF Inputs
  <2>6. input' \in Inputs
    BY <1>3, <2>3, <2>4, <2>5 DEF Inputs
  <2>7. /\ input'.owner.prompt = Len(at) + 1 /\ input'.owner.kind = "command" /\ input'.owner.flow = "special"
        /\ input'.owner.place = p /\ input'.waiting = None /\ input'.selected = t.name
    BY <1>1, <1>2, <1>7, <2>3, <2>5 DEF OwnerTypes
  <2>8. native' \in [Flows -> 0..2] /\ native'["special"] = 2
    BY <1>2, <1>7 DEF IInv, TypeOK
  <2>9. OwnerAsks'
    BY <2>2, <2>7, <2>8 DEF OwnerAsks, CommandAsks, Flows
  <2> QED BY <1>4, <1>7, <2>2, <2>6, <2>8, <2>9 DEF Kept, IInv, TypeOK, Shown
<1>8. CASE /\ admin /\ ~(flow = "special" /\ native[flow] = 1)
           /\ saved' = Saved(Answer(flow, t)) /\ InputEnded /\ Acknowledged(p)
  <2>1. Legal(Answer(flow, t), KeysOf(asks[m].flow), TargetOf(asks[m], t))
    BY <1>2, <1>8, CommandLegal
  <2>2. /\ saved' = [k \in DOMAIN saved' |-> saved'[k]] /\ DOMAIN saved' = DOMAIN Defaults
        /\ InboundNeedsLogs' /\ AsMeant /\ OncePerPrompt /\ spent' \subseteq 0..Len(at)
    BY <1>1, <1>8, <2>1, AnswerKeeps
  <2> QED BY <1>8, <2>2, InputEndedKeeps, AcknowledgedKeeps DEF Kept, IInv, TypeOK, Shown
<1> QED BY <1>5, <1>6, <1>7, <1>8 DEF Continued

\* An answer to an inline prompt.
LEMMA InlineKeeps ==
  ASSUME IInv, NEW p \in Places, NEW t \in Texts, NEW reply \in {0} \cup Messages,
         input.owner.kind = "inline", Matches(input.owner, p, reply), input.waiting # None,
         Inline(p, t), MeansAnswer(p, reply, t)
  PROVE  Kept
<1> DEFINE m == input.owner.prompt
           flow == input.waiting
<1>1. /\ m \in 1..Len(at) /\ m \notin spent /\ input.owner.place = p
      /\ Means(KeysOf(asks[m].flow), TargetOf(asks[m], t), m) /\ Spends(m)
  BY AnsweredPrompt DEF None
<1>2. flow \in Prompts /\ InlineAsks(input, asks[m])
  BY DEF IInv, OwnerAsks, None, TypeOK, Inputs
<1>3. t.name \in Names
  BY DEF Texts, Names
<1>4. ASSUME saved' = saved
      PROVE  /\ saved' = [k \in DOMAIN saved' |-> saved'[k]] /\ DOMAIN saved' = DOMAIN Defaults
             /\ InboundNeedsLogs' /\ AsMeant /\ OncePerPrompt /\ spent' = spent /\ spent' \subseteq 0..Len(at)
  BY <1>1, <1>4, AnswerKeeps, LegalNothing DEF IInv, AsMeant, OncePerPrompt, Spends, TypeOK
<1>5. CASE saved' = saved /\ InputEnded /\ Acknowledged(p)
  BY <1>4, <1>5, InputEndedKeeps, AcknowledgedKeeps DEF Kept, IInv, TypeOK, Shown
<1>6. CASE saved' = saved /\ InputEnded /\ UNCHANGED <<at, asks, newest>>
  <2>1. Shown'
    BY <1>4, <1>6 DEF Shown, IInv, TypeOK
  <2> QED BY <1>4, <1>6, <2>1, InputEndedKeeps DEF Kept, IInv, TypeOK, Shown
\* The next prompt: the choice of the limit, or the same value once more.
<1>7. ASSUME NEW data \in Inputs, NEW ask \in Asks, NEW owned \in Prompts \cup {"special_limit_choice"},
             saved' = saved, Reply(p, ask), native' = native, InlineAsks(data, ask),
             owned = IF data.waiting = None THEN "special_limit_choice" ELSE data.waiting,
             input' = [data EXCEPT !.owner = BoundTo("inline", owned, p, Len(at) + 1)]
      PROVE  Kept
  <2>1. /\ Shown' /\ Len(at) + 1 \in 1..Len(at') /\ Len(at) + 1 \notin spent'
        /\ at'[Len(at) + 1] = p /\ asks'[Len(at) + 1] = ask /\ newest'[p] = Len(at) + 1
    BY <1>4, <1>7, ReplyKeeps DEF IInv
  <2>2. BoundTo("inline", owned, p, Len(at) + 1) \in OwnerTypes
    BY DEF BoundTo, OwnerTypes, IInv, TypeOK
  <2>3. input' \in Inputs
    BY <1>7, <2>2 DEF Inputs
  <2>4. /\ input'.owner = BoundTo("inline", owned, p, Len(at) + 1)
        /\ input'.waiting = data.waiting /\ input'.selected = data.selected /\ input'.group = data.group
    BY <1>7 DEF Inputs
  <2>5. InlineAsks(input', ask)
    BY <1>7, <2>4 DEF InlineAsks
  <2>6. OwnerAsks'
    BY <1>7, <2>1, <2>4, <2>5 DEF OwnerAsks, BoundTo
  <2> QED BY <1>4, <1>7, <2>1, <2>3, <2>6 DEF Kept, IInv, TypeOK, Shown
<1>8. CASE /\ saved' = saved /\ Reply(p, [flow |-> "special_limit_choice", target |-> t.name])
           /\ input' = [NoInput EXCEPT !.selected = t.name,
                          !.owner = BoundTo("inline", "special_limit_choice", p, Len(at) + 1)]
           /\ native' = native
  <2> DEFINE data == [NoInput EXCEPT !.selected = t.name]
  <2>1. input' = [data EXCEPT !.owner = BoundTo("inline", "special_limit_choice", p, Len(at) + 1)]
    BY <1>8 DEF NoInput
  <2>2. data \in Inputs /\ data.waiting = None
    BY <1>3, ChoicePrompt DEF NoInput
  <2>3. [flow |-> "special_limit_choice", target |-> t.name] \in Asks
        /\ InlineAsks(data, [flow |-> "special_limit_choice", target |-> t.name])
    BY <1>3, ChoicePrompt
  <2> QED BY <1>7, <1>8, <2>1, <2>2, <2>3
<1>9. CASE /\ flow \in {"ip_source_concurrency", "ip_source_freshness"}
           /\ saved' = saved /\ Reply(p, [flow |-> flow, target |-> None])
           /\ input' = [Waiting(flow) EXCEPT !.owner = BoundTo("inline", flow, p, Len(at) + 1)]
           /\ native' = native
  <2>1. flow \in Prompts \ (Numbered \cup {"group_limit"}) /\ flow # None
    BY <1>9 DEF Prompts, Numbered, None
  <2>2. Waiting(flow).waiting = flow
    BY DEF Waiting, NoInput
  <2> QED BY <1>7, <1>9, <2>1, <2>2, PlainPrompt
<1>10. CASE admin /\ saved' = Saved(Answer(flow, t)) /\ InputEnded /\ Acknowledged(p)
  <2>1. Legal(Answer(flow, t), KeysOf(asks[m].flow), TargetOf(asks[m], t))
    BY <1>2, InlineLegal
  <2>2. /\ saved' = [k \in DOMAIN saved' |-> saved'[k]] /\ DOMAIN saved' = DOMAIN Defaults
        /\ InboundNeedsLogs' /\ AsMeant /\ OncePerPrompt /\ spent' \subseteq 0..Len(at)
    BY <1>1, <1>10, <2>1, AnswerKeeps
  <2> QED BY <1>10, <2>2, InputEndedKeeps, AcknowledgedKeeps DEF Kept, IInv, TypeOK, Shown
<1> QED BY <1>5, <1>6, <1>8, <1>9, <1>10 DEF Inline, AskedAgain

LEMMA TypeKeeps ==
  ASSUME IInv, Type
  PROVE  Kept
BY ContinuedKeeps, InlineKeeps DEF Type

------------------------------------------------------------------------------
(* Commands, and the others who change settings.                            *)

LEMMA StartKeeps ==
  ASSUME IInv, NEW p \in Places, NEW flow \in Flows, Start(p, flow)
  PROVE  Kept
<1>1. saved' = saved /\ spent' = spent /\ AsMeant /\ OncePerPrompt
  BY DEF Start, AsMeant, OncePerPrompt
<1>2. CASE Acknowledged(p) /\ InputEnded
  BY <1>1, <1>2, InputEndedKeeps, AcknowledgedKeeps DEF Kept, IInv, TypeOK, Shown, InboundNeedsLogs
<1>3. CASE InputEnded /\ UNCHANGED <<at, asks, newest>>
  BY <1>1, <1>3, InputEndedKeeps DEF Kept, IInv, TypeOK, InboundNeedsLogs
<1>4. CASE /\ Reply(p, FlowOf(IF flow = "special" THEN "special_limit_username" ELSE flow))
           /\ input' = [NoInput EXCEPT !.owner = BoundTo("command", flow, p, Len(at) + 1)]
           /\ native' = [NativeEnded EXCEPT ![flow] = 1]
  <2> DEFINE ask == FlowOf(IF flow = "special" THEN "special_limit_username" ELSE flow)
  <2>1. ask \in Asks
    BY DEF FlowOf, Asks, Prompts, Names
  <2>2. /\ Shown' /\ Len(at) + 1 \in 1..Len(at') /\ Len(at) + 1 \notin spent'
        /\ at'[Len(at) + 1] = p /\ asks'[Len(at) + 1] = ask /\ newest'[p] = Len(at) + 1
    BY <1>1, <1>4, <2>1, ReplyKeeps DEF IInv
  <2>3. BoundTo("command", flow, p, Len(at) + 1) \in OwnerTypes
    BY DEF BoundTo, OwnerTypes, IInv, TypeOK
  <2>4. input' = [owner |-> BoundTo("command", flow, p, Len(at) + 1), waiting |-> None, selected |-> None, group |-> None]
    BY <1>4 DEF NoInput
  <2>5. input' \in Inputs
    BY <2>3, <2>4 DEF Inputs, Names
  <2>6. native' \in [Flows -> 0..2] /\ native'[flow] = 1
    BY <1>4, NativeEndedTyped DEF IInv
  <2>7. OwnerAsks'
    BY <2>2, <2>4, <2>6 DEF OwnerAsks, BoundTo, CommandAsks
  <2> QED BY <1>1, <2>2, <2>5, <2>6, <2>7 DEF Kept, IInv, TypeOK, Shown, InboundNeedsLogs
<1> QED BY <1>2, <1>3, <1>4 DEF Start

LEMMA DirectKeeps ==
  ASSUME IInv, NEW p \in Places, NEW batch, NEW key, NEW target, Legal(batch, {key}, target), Direct(p, batch, key, target)
  PROVE  Kept
<1>1. DOMAIN batch \subseteq DOMAIN saved
  BY DEF Legal
<1>2. SavedFrom(batch) /\ (saved' # saved => admin)
  BY <1>1, SavesWhole, SavesNothing DEF Direct, IInv
<1>3. /\ saved' = [k \in DOMAIN saved' |-> saved'[k]] /\ DOMAIN saved' = DOMAIN Defaults
      /\ InboundNeedsLogs' /\ AsMeant /\ meant'.prompt = 0
  BY <1>2, LegalSave DEF Direct, IInv
<1>4. OncePerPrompt
  BY <1>3 DEF OncePerPrompt
<1>5. Shown'
  BY AcknowledgedKeeps DEF Direct, IInv, TypeOK
<1> QED BY <1>3, <1>4, <1>5, InputEndedKeeps DEF Direct, Kept, IInv, TypeOK, Shown

LEMMA CommandKeeps ==
  ASSUME IInv, ~DegradedReads, Command
  PROVE  Kept
<1>1. Reads = {saved}
  BY DEF Reads
<1> DEFINE GroupCommands(p) ==
             \/ Direct(p, group_filter_toggle(saved), "groupsOn", None)
             \/ \E mode \in {"include", "exclude"} : Direct(p, group_filter_mode(mode), "groupMode", None)
             \/ \E S \in SUBSET Groups : Direct(p, group_filter_set(S), "groups", "all")
             \/ \E g \in Groups : \/ Direct(p, group_filter_add(saved, g), "groups", g)
                                  \/ Direct(p, group_filter_remove(saved, g), "groups", g)
           AdminCommands(p) ==
             \/ Direct(p, admin_filter_toggle(saved), "adminsOn", None)
             \/ \E mode \in {"include", "exclude"} : Direct(p, admin_filter_mode(mode), "adminMode", None)
             \/ \E S \in SUBSET Groups : Direct(p, admin_filter_set(S), "admins", "all")
             \/ \E a \in Groups : \/ Direct(p, admin_filter_add(saved, a), "admins", a)
                                  \/ Direct(p, admin_filter_remove(saved, a), "admins", a)
<1>2. PICK p \in Places :
        \/ \E flow \in FlowsOf(desk) : Start(p, flow)
        \/ Direct(p, NoChange, None, None)
        \/ GroupCommands(p) \/ AdminCommands(p)
        \/ Direct(p, punishment_toggle(saved), "punish", None)
  BY <1>1 DEF Command
<1>3. ASSUME NEW flow \in FlowsOf(desk), Start(p, flow) PROVE Kept
  <2>1. flow \in Flows
    BY DEF FlowsOf, Flows
  <2> QED BY <1>3, <2>1, StartKeeps
<1>4. Legal(NoChange, {None}, None)
  BY LegalNothing DEF IInv
<1>5. \A S : Legal(group_filter_set(S), {"groups"}, "all") /\ Legal(admin_filter_set(S), {"admins"}, "all")
  BY LegalAll DEF group_filter_set, admin_filter_set, Lists
<1>6. ASSUME NEW g
      PROVE  Legal(group_filter_add(saved, g), {"groups"}, g) /\ Legal(group_filter_remove(saved, g), {"groups"}, g)
  <2>1. (saved["groups"] \cup {g}) \ {g} = saved["groups"] \ {g} /\ (saved["groups"] \ {g}) \ {g} = saved["groups"] \ {g}
    OBVIOUS
  <2> QED BY <2>1, LegalList DEF group_filter_add, group_filter_remove, Lists
<1>7. ASSUME NEW a
      PROVE  Legal(admin_filter_add(saved, a), {"admins"}, a) /\ Legal(admin_filter_remove(saved, a), {"admins"}, a)
  <2>1. (saved["admins"] \cup {a}) \ {a} = saved["admins"] \ {a} /\ (saved["admins"] \ {a}) \ {a} = saved["admins"] \ {a}
    OBVIOUS
  <2> QED BY <2>1, LegalList DEF admin_filter_add, admin_filter_remove, Lists
<1>8. CASE GroupCommands(p)
  BY <1>5, <1>6, <1>8, GroupButtonsKeep, DirectKeeps
<1>9. CASE AdminCommands(p)
  BY <1>5, <1>7, <1>9, AdminButtonsKeep, DirectKeeps
<1> QED BY <1>2, <1>3, <1>4, <1>8, <1>9, LadderButtonsKeep, DirectKeeps

\* Nobody else reads or takes the operator's input; a colleague changes no setting.
LEMMA ColleagueKeeps ==
  ASSUME IInv, saved' = saved, UNCHANGED <<input, native, at, asks, newest, spent>>
  PROVE  Kept
BY DEF Kept, IInv, TypeOK, OwnerAsks, InboundNeedsLogs, AsMeant, OncePerPrompt

LEMMA RemoteKeeps ==
  ASSUME IInv, Remote
  PROVE  Kept
<1>1. PICK batch : Legal(batch, DOMAIN saved, "all") /\ saved' = Saved(batch)
  <2>1. ASSUME NEW u, NEW n, NEW on
        PROVE  Legal(set_special_limit(u, n), DOMAIN saved, "all") /\ Legal(set_exception(u, on), DOMAIN saved, "all")
    <3>1. Legal(set_special_limit(u, n), {"special"}, u) /\ Legal(set_exception(u, on), {"excepted"}, u)
      BY UserRowsKeep
    <3> QED BY <3>1 DEF Legal, Within
  <2>2. ASSUME NEW n, NEW key \in {"general", "interval", "reenable"}
        PROVE  Legal([k \in {key} |-> n], DOMAIN saved, "all")
    BY LegalSwitch, SettingKeys DEF Tables, Lists, IInv, TypeOK
  <2> QED BY <2>1, <2>2 DEF Remote, ApiLimits, ApiExcept, ApiConfig, CliLimits, CliExcept, CliConfig
<1>2. SavedFrom(batch)
  BY <1>1, SavesWhole DEF Legal, IInv
<1>3. saved' = [k \in DOMAIN saved' |-> saved'[k]] /\ DOMAIN saved' = DOMAIN Defaults /\ InboundNeedsLogs'
  BY <1>1, <1>2, LegalRule DEF IInv
<1>4. AsMeant /\ OncePerPrompt
  BY DEF Remote, AsMeant, OncePerPrompt
<1> QED BY <1>3, <1>4 DEF Remote, Kept, IInv, TypeOK, OwnerAsks

------------------------------------------------------------------------------
LEMMA InitIInv == Init => IInv
<1> SUFFICES ASSUME Init PROVE IInv
  OBVIOUS
<1>1. PICK order \in [1..Cardinality(Places) -> Places] :
        /\ \A p \in Places : \E i \in DOMAIN order : order[i] = p
        /\ at = order /\ newest = [p \in Places |-> CHOOSE i \in DOMAIN order : order[i] = p]
  BY DEF Init
<1>2. Cardinality(Places) \in Nat
  BY OperatorAssumption, FS_CardinalityType
<1>3. at \in Seq(Places) /\ Len(at) = Cardinality(Places) /\ DOMAIN at = 1..Len(at)
  BY <1>1, <1>2
<1>4. newest \in [Places -> 0..Len(at)]
  BY <1>1, <1>3
<1>5. asks \in Seq(Asks) /\ DOMAIN asks = DOMAIN at
  <2>1. NoAsk \in Asks
    BY DEF NoAsk, Asks, Names
  <2>2. asks = [i \in 1..Cardinality(Places) |-> NoAsk]
    BY DEF Init
  <2> QED BY <1>2, <1>3, <2>1, <2>2
<1>6. saved = [k \in DOMAIN saved |-> saved[k]]
  BY DEF Init, Defaults
<1>7. InboundNeedsLogs
  BY DEF Init, Defaults, InboundNeedsLogs
<1>8. input \in Inputs /\ native \in [Flows -> 0..2] /\ OwnerAsks
  BY NoInputOwned DEF Init
<1> QED BY <1>3, <1>4, <1>5, <1>6, <1>7, <1>8 DEF Init, IInv, TypeOK

LEMMA NextKeeps == ~DegradedReads /\ IInv /\ [Next]_vars => Kept
<1> SUFFICES ASSUME ~DegradedReads, IInv, [Next]_vars PROVE Kept
  OBVIOUS
<1>1. CASE Press
  BY <1>1, PressKeeps
<1>2. CASE Type
  BY <1>2, TypeKeeps
<1>3. CASE Command
  BY <1>3, CommandKeeps
<1>4. CASE Colleague
  BY <1>4, ColleagueKeeps DEF Colleague
<1>5. CASE Remote
  BY <1>5, RemoteKeeps
<1>6. CASE UNCHANGED vars
  BY <1>6, ColleagueKeeps DEF vars
<1> QED BY <1>1, <1>2, <1>3, <1>4, <1>5, <1>6 DEF Next

\* As long as the settings can be read, the inductive invariant holds: whoever owns the
\* operator's input was asked last in its topic, for what the owner takes the answer for
\* (input_owner.py: bind_input, matches).
THEOREM OwnersAsk == ~DegradedReads => (Spec => []IInv)
<1> SUFFICES ASSUME ~DegradedReads PROVE Spec => []IInv
  OBVIOUS
<1>1. IInv /\ [Next]_vars => IInv'
  BY NextKeeps DEF Kept
<1> QED BY <1>1, InitIInv, PTL DEF Spec

\* As long as the settings can be read, counting by inbound and the API source are never
\* configured together (handle_ip_source_set_api_callback, _set_device_count_mode).
THEOREM MenusAgree == ~DegradedReads => (Spec => []InboundNeedsLogs)
<1>1. IInv => InboundNeedsLogs
  BY DEF IInv
<1> QED BY <1>1, OwnersAsk, PTL

\* As long as the settings can be read, an update changes what its button, command or
\* prompt names and nothing else, and a prompt is answered once.
THEOREM SettingsAsAsked == ~DegradedReads => (Spec => AsAsked)
<1> SUFFICES ASSUME ~DegradedReads PROVE Spec => AsAsked
  OBVIOUS
<1>1. IInv /\ [Next]_vars => [AsMeant /\ OncePerPrompt]_vars
  BY NextKeeps DEF Kept
<1>2. Spec => []IInv
  BY OwnersAsk
<1> QED BY <1>1, <1>2, PTL DEF Spec, AsAsked
=============================================================================
