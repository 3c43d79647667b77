--------------------------- MODULE SettingsProofs ---------------------------
(***************************************************************************)
(* What rj_set_int_conf saves stays in the file, for any number of         *)
(* threads, settings and values, until a write is cut short; and what is    *)
(* read back was set, also after that.                                     *)
(***************************************************************************)
EXTENDS Settings, TLAPS

\* The file that a complete write leaves is a file, and one that had the
\* section of the settings keeps it and all its values.
LEMMA ReloadFacts ==
  ASSUME NEW d \in Ini
  PROVE  /\ Reload(d) \in Ini
         /\ "control" \in d.secs =>
              /\ Reload(d).loads
              /\ "control" \in Reload(d).secs
              /\ Reload(d).ents = d.ents
  BY SettingsAssumption DEF Ini, Reload, NoValues

LEMMA EmptyType == Empty \in Ini /\ Torn \in Ini
  <1>1. Empty \in Ini
    <2>1. NoValues \in [Setting -> Value \cup {None}] /\ 0 \in 0..MaxColons
      BY SettingsAssumption DEF NoValues
    <2> QED
      BY <2>1, Zenon DEF Ini, Empty
  <1>2. \A d \in Ini : [d EXCEPT !.loads = FALSE] \in Ini
    BY Zenon DEF Ini
  <1> QED
    BY <1>1, <1>2, Zenon DEF Torn

\* Setting one value in a loaded file.
LEMMA WithValueFacts ==
  ASSUME TypeOK, NEW t \in Thread
  PROVE  /\ WithValue(t) \in Ini
         /\ WithValue(t).secs = ini.secs
         /\ WithValue(t).ents = [ini.ents EXCEPT ![Name(t)] = arg[t][2]]
  <1>1. arg[t][1] \in Setting /\ arg[t][2] \in Value
    BY Zenon DEF TypeOK
  <1> QED
    BY <1>1, Zenon DEF TypeOK, Ini, WithValue, Name

\* A write that is cut short leaves a file too.
LEMMA PartialType ==
  ASSUME NEW d \in Ini
  PROVE  Partial(d) \subseteq Ini
  <1>1. ASSUME NEW secs \in SUBSET d.secs, NEW kept \in SUBSET Setting
        PROVE  Cut(d, secs, kept) \in Ini
    BY Zenon DEF Ini, Cut
  <1>2. SUFFICES ASSUME NEW f \in Partial(d) PROVE f \in Ini
    BY Zenon
  <1>3. CASE f \in {Torn, Empty, d}
    BY <1>3, EmptyType, Zenon
  <1>4. CASE \E secs \in SUBSET d.secs : \E kept \in SUBSET Setting : f = Cut(d, secs, kept)
    BY <1>1, <1>4, Zenon
  <1> QED
    BY <1>2, <1>3, <1>4, Zenon DEF Partial

LEMMA InitType == Init => TypeOK
  <1> SUFFICES ASSUME Init PROVE TypeOK
    BY Zenon
  <1>1. file \in Ini /\ ini \in Ini
    BY SettingsAssumption, EmptyType, Zenon DEF Init
  <1>2. used \in [Setting -> SUBSET Value]
    BY <1>1, Zenon DEF Init, Ini
  <1>3. arg \in [Thread -> Setting \X Value]
    BY SettingsAssumption DEF Init
  <1>4. device \in [Setting -> Value] /\ calls \in 0..MaxCalls
    BY SettingsAssumption DEF Init
  <1> QED
    BY <1>1, <1>2, <1>3, <1>4, Zenon DEF Init, TypeOK, NoValues

LEMMA NextType == TypeOK /\ [Next]_vars => TypeOK'
  <1> SUFFICES ASSUME TypeOK, [Next]_vars PROVE TypeOK'
    BY Zenon
  <1> USE SettingsAssumption
  <1>1. ASSUME NEW t \in Thread, NEW s \in Setting, NEW v \in Allowed[s], SetCall(t, s, v)
        PROVE  TypeOK'
    <2>1. v \in Value
      BY Zenon
    <2>2. calls' \in 0..MaxCalls
      BY <1>1 DEF SetCall, TypeOK
    <2>3. used' \in [Setting -> SUBSET Value]
      BY <1>1, <2>1, Zenon DEF SetCall, TypeOK
    <2>4. arg' \in [Thread -> Setting \X Value]
      BY <1>1, <2>1, Zenon DEF SetCall, TypeOK
    <2>5. mixed' \in SUBSET Setting
      BY <1>1, Zenon DEF SetCall, TypeOK
    <2> QED
      BY <1>1, <2>2, <2>3, <2>4, <2>5, Zenon DEF SetCall, Goto, TypeOK
  <1>2. ASSUME NEW t \in Thread, WriteDevice(t)
        PROVE  TypeOK'
    <2>1. arg[t][1] \in Setting /\ arg[t][2] \in Value
      BY Zenon DEF TypeOK
    <2>2. device' \in [Setting -> Value]
      BY <1>2, <2>1, Zenon DEF WriteDevice, TypeOK, Name
    <2> QED
      BY <1>2, <2>1, <2>2, Zenon DEF WriteDevice, Goto, Fails, Name, TypeOK
  <1>3. ASSUME NEW t \in Thread, Load(t)
        PROVE  TypeOK'
    BY <1>3, ZenonT(30) DEF Load, Goto, Fails, Name, TypeOK
  <1>4. ASSUME NEW t \in Thread, Open(t)
        PROVE  TypeOK'
    BY <1>4, EmptyType, ZenonT(30) DEF Open, Goto, Fails, Name, TypeOK
  <1>5. ASSUME NEW t \in Thread, Dump(t)
        PROVE  TypeOK'
    <2>1. file' \in Ini
      BY <1>5, WithValueFacts, ReloadFacts, PartialType, Zenon DEF Dump
    <2>2. saved' \in [Setting -> Value \cup {None}]
      BY <1>5, Zenon DEF Dump, TypeOK, Name
    <2> QED
      BY <1>5, <2>1, <2>2, Zenon DEF Dump, Goto, TypeOK
  <1>6. ASSUME NEW t \in Thread, NEW s \in Setting, Get(t, s)
        PROVE  TypeOK'
    <2>1. file.ents[s] \in Value \cup {None} /\ Default[s] \in Value
      BY Zenon DEF TypeOK, Ini
    <2>2. got' \in [Thread -> (Setting \X Value) \cup {None}]
      BY <1>6, <2>1, Zenon DEF Get, TypeOK
    <2> QED
      BY <1>6, <2>2, Zenon DEF Get, TypeOK
  <1>7. CASE Crash
    <2>1. file' \in Ini
      BY <1>7, WithValueFacts, ReloadFacts, PartialType, Zenon DEF Crash, TypeOK
    <2>2. saved' \in [Setting -> Value \cup {None}] /\ cut' \in BOOLEAN
      <3>1. CASE saved' = NoValues /\ cut' = TRUE
        BY <3>1, Zenon DEF NoValues
      <3>2. CASE UNCHANGED <<saved, cut>>
        BY <3>2, Zenon DEF TypeOK
      <3> QED
        BY <1>7, <3>1, <3>2, Zenon DEF Crash
    <2>3. mixed' \in SUBSET Setting
      BY <1>7, Zenon DEF Crash, TypeOK
    <2>4. /\ pc' \in [Thread -> {"idle", "device", "load", "open", "dump"}]
          /\ got' \in [Thread -> (Setting \X Value) \cup {None}]
          /\ g_cfg_lock' \in Thread \cup {None}
      BY <1>7, Zenon DEF Crash
    <2> QED
      BY <1>7, <2>1, <2>2, <2>3, <2>4, Zenon DEF Crash, TypeOK
  <1>8. CASE UNCHANGED vars
    BY <1>8, Zenon DEF vars, TypeOK
  <1> QED
    BY <1>1, <1>2, <1>3, <1>4, <1>5, <1>6, <1>7, <1>8, Zenon DEF Next, ThreadStep

\* TypeOK: the file is always one iniparser_load can be given, crashes and full
\* disks included (rj_set_int_conf and rj_get_int_conf).
THEOREM TypeCorrect == Spec => []TypeOK
  BY InitType, NextType, PTL DEF Spec

-----------------------------------------------------------------------------
\* The files with which saving works: one that loads has the section of the
\* settings.
Reliable == \A f \in InitFile : f.loads => "control" \in f.secs

LEMMA InitIInv ==
  ASSUME Reliable
  PROVE  Init => IInv
  <1> SUFFICES ASSUME Init PROVE IInv
    BY Zenon
  <1>1. TypeOK
    BY InitType, Zenon
  <1>2. SavedIn(Content) /\ (Content.loads => "control" \in Content.secs)
    BY Zenon DEF Init, SavedIn, Content, NoValues, Reliable
  <1> QED
    BY <1>1, <1>2, SettingsAssumption, Zenon DEF Init, IInv, Inside

LEMMA NextIInv ==
  ASSUME Reliable
  PROVE  IInv /\ [Next]_vars => IInv'
  <1> SUFFICES ASSUME IInv, [Next]_vars PROVE IInv'
    BY Zenon
  <1>0. TypeOK /\ TypeOK'
    BY NextType, Zenon DEF IInv
  <1> USE SettingsAssumption
  <1>1. ASSUME NEW t \in Thread, NEW s \in Setting, NEW v \in Allowed[s], SetCall(t, s, v)
        PROVE  IInv'
    BY <1>0, <1>1, Zenon DEF SetCall, Goto, IInv, Inside, SavedIn, Content, TypeOK
  <1>2. ASSUME NEW t \in Thread, WriteDevice(t)
        PROVE  IInv'
    BY <1>0, <1>2 DEF WriteDevice, Goto, IInv, Inside, SavedIn, Content, TypeOK
  <1>3. ASSUME NEW t \in Thread, Load(t)
        PROVE  IInv'
    BY <1>0, <1>3 DEF Load, Goto, IInv, Inside, SavedIn, Content, TypeOK
  <1>4. ASSUME NEW t \in Thread, Open(t)
        PROVE  IInv'
    <2>1. /\ g_cfg_lock = t /\ t # None /\ file = ini
          /\ UNCHANGED <<ini, saved, cut>>
      BY <1>4, Zenon DEF Open, IInv, Inside
    <2>2. Content' = Content
      BY <1>4, <2>1, Zenon DEF Open, Content
    <2>3. ~cut' => SavedIn(Content)' /\ (Content'.loads => "control" \in Content'.secs)
      BY <2>1, <2>2, Zenon DEF IInv, SavedIn
    <2>4. \A u \in Thread : Inside(u)' <=> g_cfg_lock' = u
      BY <1>0, <1>4, <2>1 DEF Open, Goto, IInv, Inside, TypeOK
    <2>5. \A u \in Thread : pc'[u] # "open"
      BY <1>0, <1>4, <2>1 DEF Open, Goto, IInv, Inside, TypeOK
    <2>6. g_cfg_lock' # None => ini'.loads
      BY <2>1, Zenon DEF IInv
    <2> QED
      BY <1>0, <2>3, <2>4, <2>5, <2>6, Zenon DEF IInv
  <1>5. ASSUME NEW t \in Thread, Dump(t)
        PROVE  IInv'
    <2>1. g_cfg_lock = t /\ t # None /\ ini.loads
      BY <1>5, Zenon DEF Dump, IInv, Inside
    <2>2. saved' = [saved EXCEPT ![Name(t)] = arg[t][2]] /\ g_cfg_lock' = None
      BY <1>5, Zenon DEF Dump
    <2>3. ASSUME ~cut'
          PROVE  SavedIn(file)' /\ "control" \in file'.secs
      <3>1. file' = Reload(WithValue(t)) /\ ~cut
        BY <1>5, <2>3 DEF Dump
      <3>2. SavedIn(ini) /\ "control" \in ini.secs
        BY <2>1, <3>1, Zenon DEF IInv, Content
      <3>3. /\ file'.loads /\ "control" \in file'.secs
            /\ file'.ents = [ini.ents EXCEPT ![Name(t)] = arg[t][2]]
        BY <1>0, <3>1, <3>2, WithValueFacts, ReloadFacts, Zenon
      <3>4. ini.ents \in [Setting -> Value \cup {None}] /\ saved \in [Setting -> Value \cup {None}]
        BY <1>0, Zenon DEF TypeOK, Ini
      <3>5. \A s \in Setting : saved'[s] # None => file'.ents[s] = saved'[s]
        BY <2>2, <3>2, <3>3, <3>4, Zenon DEF SavedIn
      <3> QED
        BY <3>3, <3>5, Zenon DEF SavedIn
    <2>4. Content' = file' /\ (~cut' => SavedIn(Content)')
      BY <2>2, <2>3, Zenon DEF Content, SavedIn
    <2>5. \A u \in Thread : Inside(u)' <=> g_cfg_lock' = u
      BY <1>0, <1>5, <2>1, <2>2 DEF Dump, Goto, IInv, Inside, TypeOK
    <2>6. \A u \in Thread : pc'[u] # "open"
      BY <2>2, <2>5, Zenon DEF Inside
    <2> QED
      BY <1>0, <2>2, <2>3, <2>4, <2>5, <2>6, Zenon DEF IInv
  <1>6. ASSUME NEW t \in Thread, NEW s \in Setting, Get(t, s)
        PROVE  IInv'
    BY <1>0, <1>6, Zenon DEF Get, IInv, Inside, SavedIn, Content
  <1>7. CASE Crash
    <2>1. /\ g_cfg_lock' = None /\ Content' = file'
          /\ \A u \in Thread : pc'[u] = "idle"
      BY <1>7, Zenon DEF Crash, Content
    <2>2. ASSUME ~cut'
          PROVE  SavedIn(Content)' /\ (Content'.loads => "control" \in Content'.secs)
      <3>1. UNCHANGED <<file, saved>> /\ ~cut /\ \A u \in Thread : pc[u] # "dump"
        BY <1>7, <2>2 DEF Crash
      <3>2. Content = file
        BY <1>0, <3>1, Zenon DEF IInv, Inside, Content, TypeOK
      <3> QED
        BY <2>1, <3>1, <3>2, Zenon DEF IInv, SavedIn
    <2> QED
      BY <1>0, <2>1, <2>2, Zenon DEF IInv, Inside
  <1>8. CASE UNCHANGED vars
    BY <1>0, <1>8, Zenon DEF vars, IInv, Inside, SavedIn, Content
  <1> QED
    BY <1>1, <1>2, <1>3, <1>4, <1>5, <1>6, <1>7, <1>8, Zenon DEF Next, ThreadStep

\* SavedIsRead: a value for which rj_set_int_conf returned 0 is the one that
\* rj_get_int_conf finds, whatever the other threads set in between and however
\* often the process is killed, until a write is cut short.
THEOREM SavedStays ==
  ASSUME Reliable
  PROVE  Spec => []SavedIsRead
  <1>1. Init => IInv
    BY InitIInv, Zenon
  <1>2. IInv /\ [Next]_vars => IInv'
    BY NextIInv, Zenon
  <1>3. IInv => SavedIsRead
    BY Zenon DEF IInv, SavedIsRead, SavedIn, Content
  <1> QED
    BY <1>1, <1>2, <1>3, PTL DEF Spec

-----------------------------------------------------------------------------
\* A file cut short holds no value that the whole one does not hold.
LEMMA PartialValues ==
  ASSUME NEW d \in Ini, NEW f \in Partial(d), NEW s \in Setting
  PROVE  f.ents[s] \in {None, d.ents[s]}
  <1>1. CASE f = Torn \/ f = Empty
    <2>1. Torn.ents = NoValues /\ Empty.ents = NoValues
      BY Zenon DEF Torn, Empty
    <2> QED
      BY <1>1, <2>1, Zenon DEF NoValues
  <1>2. CASE f = d
    BY <1>2, Zenon
  <1>3. ASSUME NEW secs \in SUBSET d.secs, NEW kept \in SUBSET Setting, f = Cut(d, secs, kept)
        PROVE  f.ents[s] \in {None, d.ents[s]}
    <2>1. f.ents = [u \in Setting |->
                      IF "control" \in secs /\ u \in kept THEN d.ents[u] ELSE None]
      BY <1>3, Zenon DEF Cut, Ini
    <2> QED
      BY <2>1, Zenon
  <1> QED
    BY <1>1, <1>2, <1>3, Zenon DEF Partial

\* A write, whole or cut short, holds what was loaded and what is being set.
LEMMA WrittenFromUsed ==
  ASSUME UInv, NEW t \in Thread, pc[t] = "dump",
         NEW f, f = Reload(WithValue(t)) \/ f \in Partial(Reload(WithValue(t)))
  PROVE  FromUsed(f)
  <1>1. WithValue(t) \in Ini /\ WithValue(t).ents = [ini.ents EXCEPT ![Name(t)] = arg[t][2]]
    BY WithValueFacts, Zenon DEF UInv
  <1>2. \A s \in Setting : WithValue(t).ents[s] \in used[s] \cup {None}
    <2>1. ini.ents \in [Setting -> Value \cup {None}]
      BY Zenon DEF UInv, TypeOK, Ini
    <2> QED
      BY <1>1, <2>1, Zenon DEF UInv, FromUsed, Name
  <1>3. Reload(WithValue(t)) \in Ini
    BY <1>1, ReloadFacts, Zenon
  <1>4. \A s \in Setting : Reload(WithValue(t)).ents[s] \in {None, WithValue(t).ents[s]}
    BY Zenon DEF Reload, NoValues
  <1> QED
    BY <1>2, <1>3, <1>4, PartialValues DEF FromUsed

LEMMA NextUInv == UInv /\ [Next]_vars => UInv'
  <1> SUFFICES ASSUME UInv, [Next]_vars PROVE UInv'
    BY Zenon
  <1>0. TypeOK /\ TypeOK'
    BY NextType, Zenon DEF UInv
  <1> USE SettingsAssumption
  <1>1. ASSUME NEW t \in Thread, NEW s \in Setting, NEW v \in Allowed[s], SetCall(t, s, v)
        PROVE  UInv'
    <2>1. /\ used' = [used EXCEPT ![s] = @ \cup {v}] /\ arg' = [arg EXCEPT ![t] = <<s, v>>]
          /\ pc' = [pc EXCEPT ![t] = "device"] /\ UNCHANGED <<file, ini, got>>
      BY <1>1, Zenon DEF SetCall, Goto
    <2>2. \A u \in Setting : used[u] \subseteq used'[u]
      BY <1>0, <2>1, Zenon DEF TypeOK
    <2>3. FromUsed(file)' /\ FromUsed(ini)'
      BY <2>1, <2>2, Zenon DEF UInv, FromUsed
    <2>4. ReadsWereSet'
      BY <1>0, <2>1, <2>2 DEF UInv, ReadsWereSet, TypeOK
    <2>5. \A u \in Thread : pc'[u] # "idle" => arg'[u][2] \in used'[arg'[u][1]]
      <3>1. ASSUME NEW u \in Thread, pc'[u] # "idle" PROVE arg'[u][2] \in used'[arg'[u][1]]
        <4>1. CASE u = t
          BY <1>0, <2>1, <4>1, Zenon DEF TypeOK
        <4>2. CASE u # t
          <5>1. arg'[u] = arg[u] /\ pc'[u] = pc[u] /\ arg[u][1] \in Setting
            BY <1>0, <2>1, <4>2, Zenon DEF TypeOK
          <5> QED
            BY <2>2, <3>1, <5>1, Zenon DEF UInv
        <4> QED
          BY <4>1, <4>2, Zenon
      <3> QED
        BY <3>1, Zenon
    <2> QED
      BY <1>0, <2>3, <2>4, <2>5, Zenon DEF UInv
  <1>2. ASSUME NEW t \in Thread, WriteDevice(t)
        PROVE  UInv'
    BY <1>0, <1>2 DEF WriteDevice, Goto, UInv, FromUsed, ReadsWereSet, TypeOK
  <1>3. ASSUME NEW t \in Thread, Load(t)
        PROVE  UInv'
    BY <1>0, <1>3 DEF Load, Goto, UInv, FromUsed, ReadsWereSet, TypeOK
  <1>4. ASSUME NEW t \in Thread, Open(t)
        PROVE  UInv'
    <2>1. \A s \in Setting : Empty.ents[s] = None
      BY Zenon DEF Empty, NoValues
    <2> QED
      BY <1>0, <1>4, <2>1 DEF Open, Goto, UInv, FromUsed, ReadsWereSet, TypeOK
  <1>5. ASSUME NEW t \in Thread, Dump(t)
        PROVE  UInv'
    <2>1. FromUsed(file')
      BY <1>5, WrittenFromUsed, Zenon DEF Dump
    <2> QED
      BY <1>0, <1>5, <2>1 DEF Dump, Goto, UInv, FromUsed, ReadsWereSet, TypeOK
  <1>6. ASSUME NEW t \in Thread, NEW s \in Setting, Get(t, s)
        PROVE  UInv'
    BY <1>0, <1>6, Zenon DEF Get, UInv, FromUsed, ReadsWereSet, TypeOK
  <1>7. CASE Crash
    <2>1. FromUsed(file')
      BY <1>7, WrittenFromUsed, Zenon DEF Crash, UInv
    <2> QED
      BY <1>0, <1>7, <2>1, Zenon DEF Crash, UInv, FromUsed, ReadsWereSet
  <1>8. CASE UNCHANGED vars
    BY <1>0, <1>8, Zenon DEF vars, UInv, FromUsed, ReadsWereSet
  <1> QED
    BY <1>1, <1>2, <1>3, <1>4, <1>5, <1>6, <1>7, <1>8, Zenon DEF Next, ThreadStep

\* ReadsWereSet: whatever is killed or cut short, rj_get_int_conf returns the
\* default or a value that some set was given.
THEOREM NothingInvented == Spec => []ReadsWereSet
  <1>1. Init => UInv
    <2> SUFFICES ASSUME Init PROVE UInv
      BY Zenon
    <2>1. \A s \in Setting : Empty.ents[s] = None
      BY Zenon DEF Empty, NoValues
    <2>2. TypeOK
      BY InitType, Zenon
    <2> QED
      BY <2>1, <2>2, Zenon DEF Init, UInv, FromUsed, ReadsWereSet
  <1>2. UInv => ReadsWereSet
    BY Zenon DEF UInv
  <1> QED
    BY <1>1, <1>2, NextUInv, PTL DEF Spec

-----------------------------------------------------------------------------
\* The device and the file.

LEMMA NextMInv == TypeOK /\ MInv /\ [Next]_vars => MInv'
  <1> SUFFICES ASSUME TypeOK, MInv, [Next]_vars PROVE MInv'
    BY Zenon
  <1>0. /\ pc \in [Thread -> {"idle", "device", "load", "open", "dump"}]
        /\ arg \in [Thread -> Setting \X Value] /\ device \in [Setting -> Value]
        /\ saved \in [Setting -> Value \cup {None}]
        /\ \A t \in Thread : Name(t) \in Setting
    BY Zenon DEF TypeOK, Name
  <1>1. ASSUME NEW t \in Thread, NEW s \in Setting, NEW v \in Allowed[s], SetCall(t, s, v)
        PROVE  MInv'
    <2>1. /\ pc[t] = "idle" /\ pc' = [pc EXCEPT ![t] = "device"]
          /\ arg' = [arg EXCEPT ![t] = <<s, v>>] /\ UNCHANGED <<device, saved, cut>>
          /\ mixed' = IF Busy(s) THEN mixed \cup {s} ELSE mixed \ {s}
      BY <1>1, Zenon DEF SetCall, Goto
    <2>2. /\ pc'[t] = "device" /\ Name(t)' = s
          /\ \A u \in Thread : u # t => pc'[u] = pc[u] /\ arg'[u] = arg[u] /\ Name(u)' = Name(u)
      BY <1>0, <2>1, Zenon DEF Name
    <2>3. ASSUME NEW r \in Setting, r \notin mixed'
          PROVE  /\ \A u \in Thread : pc'[u] # "idle" /\ Name(u)' = r =>
                      u = t \/ (pc[u] # "idle" /\ Name(u) = r /\ r # s)
                 /\ r = s \/ r \notin mixed
      BY <2>1, <2>2, <2>3, Zenon DEF Busy
    <2>4. Busy(s)' /\ \A r \in Setting : r # s => (Busy(r)' <=> Busy(r))
      BY <2>1, <2>2, Zenon DEF Busy
    <2> QED
      BY <2>1, <2>2, <2>3, <2>4 DEF MInv
  <1>2. ASSUME NEW t \in Thread, WriteDevice(t)
        PROVE  MInv'
    <2>1. /\ pc[t] = "device" /\ UNCHANGED <<arg, saved, cut>>
          /\ pc' = [pc EXCEPT ![t] = "load"] \/ pc' = [pc EXCEPT ![t] = "idle"]
          /\ device' = [device EXCEPT ![Name(t)] = arg[t][2]] \/ device' = device
          /\ mixed' = mixed \cup {Name(t)}
             \/ /\ mixed' = mixed /\ pc' = [pc EXCEPT ![t] = "load"]
                /\ device' = [device EXCEPT ![Name(t)] = arg[t][2]]
      BY <1>2, Zenon DEF WriteDevice, Goto, Fails
    <2>2. /\ \A u \in Thread : u # t => pc'[u] = pc[u]
          /\ \A u \in Thread : Name(u)' = Name(u)
          /\ \A r \in Setting : r # Name(t) => device'[r] = device[r]
          /\ \A u \in Thread : pc'[u] # "idle" => pc[u] # "idle"
      BY <1>0, <2>1, Zenon DEF Name
    <2>3. \A r \in Setting \ mixed' : Busy(r)' <=> Busy(r)
      BY <1>0, <2>1, <2>2, Zenon DEF Busy
    <2>4. Name(t) \notin mixed' => pc'[t] = "load" /\ device'[Name(t)] = arg[t][2] /\ Busy(Name(t))'
      BY <1>0, <2>1, <2>2, Zenon DEF Busy
    <2> QED
      BY <1>0, <2>1, <2>2, <2>3, <2>4 DEF MInv
  <1>3. ASSUME NEW t \in Thread, Load(t) \/ Open(t)
        PROVE  MInv'
    <2>1. /\ pc[t] \in {"load", "open"} /\ UNCHANGED <<arg, saved, cut, device>>
          /\ \/ mixed' = mixed \cup {Name(t)} /\ pc' = [pc EXCEPT ![t] = "idle"]
             \/ mixed' = mixed /\ pc' = [pc EXCEPT ![t] = "open"]
             \/ mixed' = mixed /\ pc' = [pc EXCEPT ![t] = "dump"]
      BY <1>3, Zenon DEF Load, Open, Goto, Fails
    <2>2. /\ \A u \in Thread : u # t => pc'[u] = pc[u]
          /\ \A u \in Thread : Name(u)' = Name(u)
          /\ \A u \in Thread : pc'[u] # "idle" => pc[u] # "idle"
          /\ pc'[t] = "idle" => Name(t) \in mixed'
          /\ mixed \subseteq mixed'
      BY <1>0, <2>1, Zenon DEF Name
    <2>3. \A r \in Setting \ mixed' : Busy(r)' <=> Busy(r)
      BY <1>0, <2>1, <2>2, Zenon DEF Busy
    <2> QED
      BY <1>0, <2>1, <2>2, <2>3 DEF MInv
  <1>4. ASSUME NEW t \in Thread, Dump(t)
        PROVE  MInv'
    <2>1. /\ pc[t] = "dump" /\ UNCHANGED <<arg, device, mixed>>
          /\ pc' = [pc EXCEPT ![t] = "idle"]
          /\ saved' = [saved EXCEPT ![Name(t)] = arg[t][2]] /\ (cut => cut')
      BY <1>4 DEF Dump, Goto
    <2>2. /\ \A u \in Thread : u # t => pc'[u] = pc[u]
          /\ \A u \in Thread : Name(u)' = Name(u)
          /\ \A u \in Thread : pc'[u] # "idle" => pc[u] # "idle" /\ u # t
          /\ \A r \in Setting : r # Name(t) => saved'[r] = saved[r]
          /\ saved'[Name(t)] = arg[t][2]
      BY <1>0, <2>1, Zenon DEF Name
    <2>3. \A r \in Setting \ mixed : r # Name(t) => (Busy(r)' <=> Busy(r))
      BY <1>0, <2>1, <2>2 DEF Busy
    <2> QED
      BY <1>0, <2>1, <2>2, <2>3 DEF MInv
  <1>5. ASSUME NEW t \in Thread, NEW s \in Setting, Get(t, s)
        PROVE  MInv'
    BY <1>5 DEF Get, MInv, Busy, Name
  <1>6. CASE Crash
    <2>1. /\ \A u \in Thread : pc'[u] = "idle"
          /\ mixed' = mixed \cup {s \in Setting : Busy(s)}
          /\ UNCHANGED device /\ (cut' \/ (~cut' /\ UNCHANGED <<saved, cut>>))
      BY <1>6, Zenon DEF Crash, TypeOK
    <2> QED
      BY <2>1 DEF MInv, Busy
  <1>7. CASE UNCHANGED vars
    BY <1>7 DEF vars, MInv, Busy, Name
  <1> QED
    BY <1>1, <1>2, <1>3, <1>4, <1>5, <1>6, <1>7, Zenon DEF Next, ThreadStep

\* DeviceIsFile: however sets of one setting failed or crossed before, one that
\* runs alone and succeeds brings the device and system.ini together again, for
\* any number of threads and settings, until a write is cut short.
THEOREM DeviceAgrees ==
  ASSUME Reliable
  PROVE  Spec => []DeviceIsFile
  <1>1. Init => IInv /\ MInv
    BY InitIInv, Zenon DEF Init, MInv
  <1>2. IInv /\ MInv /\ [Next]_vars => IInv' /\ MInv'
    BY NextIInv, NextMInv, Zenon DEF IInv
  <1>3. ASSUME IInv, MInv
        PROVE  DeviceIsFile
    <2>1. \A s \in Setting : device[s] # None
      BY <1>3, SettingsAssumption DEF IInv, TypeOK
    <2> QED
      BY <1>3, <2>1, ZenonT(30) DEF DeviceIsFile, IInv, MInv, SavedIn, Content
  <1>4. IInv /\ MInv => DeviceIsFile
    BY <1>3, Zenon
  <1> QED
    BY <1>1, <1>2, <1>4, PTL DEF Spec

\* KeepsLoading: no number of saves by any number of threads makes system.ini
\* too long to load, until a write is cut short.
THEOREM LoadsForever ==
  ASSUME Reliable
  PROVE  Spec => KeepsLoading
  <1>1. ASSUME IInv, [Next]_vars, ~cut', Content.loads
        PROVE  Content'.loads
    <2>1. IInv'
      BY <1>1, NextIInv, Zenon
    <2>2. CASE g_cfg_lock' # None
      BY <2>1, <2>2, Zenon DEF IInv, Content
    <2>3. CASE g_cfg_lock' = None /\ \E t \in Thread : Dump(t)
      <3>1. PICK t \in Thread : Dump(t)
        BY <2>3, Zenon
      <3>2. g_cfg_lock = t /\ t # None /\ TypeOK
        BY <1>1, <3>1, SettingsAssumption, Zenon DEF IInv, Dump, Inside
      <3>3. file' = Reload(WithValue(t)) /\ ~cut
        BY <1>1, <3>1, <3>2, Zenon DEF Dump, TypeOK
      <3>4. "control" \in ini.secs
        BY <1>1, <3>2, <3>3, Zenon DEF IInv, Content
      <3> QED
        BY <2>3, <3>2, <3>3, <3>4, WithValueFacts, ReloadFacts, Zenon DEF Content
    <2>4. CASE g_cfg_lock' = None /\ ~\E t \in Thread : Dump(t)
      <3>1. Content = file \/ Crash \/ \E t \in Thread : Open(t)
        BY <1>1, <2>4, Zenon
        DEF Next, ThreadStep, SetCall, WriteDevice, Load, Get, Content, vars
      <3>2. Content = file
        <4>1. CASE \E t \in Thread : Open(t)
          BY <1>1, <4>1, Zenon DEF Open, IInv, Content
        <4>2. CASE Crash
          <5>1. \A t \in Thread : pc[t] # "dump"
            BY <1>1, <4>2, Zenon DEF Crash
          <5>2. g_cfg_lock \in Thread \cup {None}
            BY <1>1, Zenon DEF IInv, TypeOK
          <5> QED
            BY <1>1, <5>1, <5>2, Zenon DEF IInv, Inside, Content
        <4> QED
          BY <3>1, <4>1, <4>2, Zenon
      <3>3. file' = file
        BY <1>1, <2>4, SettingsAssumption, Zenon
        DEF Next, ThreadStep, SetCall, WriteDevice, Load, Open, Get, Crash, vars, IInv, Inside
      <3> QED
        BY <1>1, <2>4, <3>2, <3>3, Zenon DEF Content
    <2> QED
      BY <2>2, <2>3, <2>4, Zenon
  <1>2. IInv /\ [Next]_vars => [~cut' /\ Content.loads => Content'.loads]_vars
    BY <1>1, Zenon
  <1> QED
    BY <1>2, InitIInv, NextIInv, PTL DEF Spec, KeepsLoading

-----------------------------------------------------------------------------
LEMMA ValuesType ==
  ASSUME NEW f \in Ini
  PROVE  Values(f) \in S!Contents
  BY Zenon DEF Ini, Values, S!Contents

\* How the steps of a set look to the store: only the last one ends the call.
LEMMA InSetSteps ==
  ASSUME TypeOK, NEW t \in Thread, pc[t] # "idle"
  PROVE  /\ InSet[t] = arg[t] /\ InSet[t] # None
         /\ arg' = arg /\ Goto(t, "idle") => InSet' = [InSet EXCEPT ![t] = None]
         /\ \A l \in {"load", "open", "dump"} : arg' = arg /\ Goto(t, l) => InSet' = InSet
  <1>1. InSet[t] = arg[t] /\ arg[t] \in Setting \X Value
    BY Zenon DEF InSet, TypeOK
  <1>2. ASSUME arg' = arg, Goto(t, "idle")
        PROVE  InSet' = [InSet EXCEPT ![t] = None]
    BY <1>2, Zenon DEF InSet, Goto, TypeOK
  <1>3. ASSUME NEW l \in {"load", "open", "dump"}, arg' = arg, Goto(t, l)
        PROVE  InSet' = InSet
    BY <1>3, Zenon DEF InSet, Goto, TypeOK
  <1> QED
    BY <1>1, <1>2, <1>3, SettingsAssumption, Zenon

\* A complete write of a file with the section changes the one value; any other
\* happens only once some write was cut short.
LEMMA DumpReturns ==
  ASSUME IInv, NEW t \in Thread, Dump(t)
  PROVE  S!Return(t)
  <1>1. /\ TypeOK /\ g_cfg_lock = t /\ g_cfg_lock # None /\ ini.loads /\ Content = ini
        /\ g_cfg_lock' = None /\ Content' = file' /\ ini \in Ini
    <2>1. g_cfg_lock = t /\ t # None
      BY SettingsAssumption, Zenon DEF IInv, Dump, Inside
    <2> QED
      BY <2>1, Zenon DEF IInv, Dump, Content, TypeOK
  <1>2. /\ InSet[t] = arg[t] /\ InSet[t] # None /\ InSet' = [InSet EXCEPT ![t] = None]
        /\ got' = got
    BY <1>1, InSetSteps, Zenon DEF Dump
  <1>3. Content' \in Ini
    BY <1>1, NextType, Zenon DEF Next, ThreadStep, TypeOK
  <1>4. Values(Content)' \in S!Contents
    BY <1>3, ValuesType, Zenon
  <1>5. CASE cut' = TRUE
    BY <1>2, <1>4, <1>5, Zenon DEF S!Return
  <1>6. CASE cut' # TRUE
    <2>1. cut' = cut /\ ~cut /\ file' = Reload(WithValue(t))
      BY <1>1, <1>6, Zenon DEF Dump, TypeOK
    <2>2. "control" \in ini.secs
      BY <1>1, <2>1, Zenon DEF IInv
    <2>3. file'.loads /\ file'.ents = [ini.ents EXCEPT ![Name(t)] = arg[t][2]]
      BY <1>1, <2>1, <2>2, WithValueFacts, ReloadFacts, Zenon
    <2>4. Values(Content)' = [Values(Content) EXCEPT ![InSet[t][1]] = InSet[t][2]]
      BY <1>1, <1>2, <2>3, Zenon DEF Values, Name, Ini, TypeOK
    <2> QED
      BY <1>2, <2>1, <2>4, Zenon DEF S!Return
  <1> QED
    BY <1>5, <1>6, Zenon

LEMMA NextRefines == IInv /\ [Next]_vars => [S!StoreNext]_(S!storeVars)
  <1> SUFFICES ASSUME IInv, [Next]_vars PROVE [S!StoreNext]_(S!storeVars)
    BY Zenon
  <1>0. TypeOK
    BY Zenon DEF IInv
  <1>1. ASSUME NEW t \in Thread, NEW s \in Setting, NEW v \in Allowed[s], SetCall(t, s, v)
        PROVE  S!Invoke(t, s, v)
    <2>1. InSet[t] = None /\ InSet' = [InSet EXCEPT ![t] = <<s, v>>]
      BY <1>0, <1>1, Zenon DEF SetCall, Goto, InSet, TypeOK
    <2>2. Content' = Content
      BY <1>1, Zenon DEF SetCall, Content
    <2> QED
      BY <1>1, <2>1, <2>2, Zenon DEF SetCall, S!Invoke, Values
  <1>2. ASSUME NEW t \in Thread, WriteDevice(t)
        PROVE  S!Return(t) \/ UNCHANGED S!storeVars
    <2>1. Content' = Content /\ got' = got /\ cut' = cut /\ arg' = arg
      BY <1>2, Zenon DEF WriteDevice, Content
    <2>2. pc[t] # "idle" /\ (Goto(t, "idle") \/ Goto(t, "load"))
      BY <1>2, Zenon DEF WriteDevice
    <2> QED
      BY <1>0, <2>1, <2>2, InSetSteps, Zenon DEF S!Return, S!storeVars, Values
  <1>3. ASSUME NEW t \in Thread, Load(t)
        PROVE  S!Return(t) \/ UNCHANGED S!storeVars
    <2>1. got' = got /\ cut' = cut /\ arg' = arg
      BY <1>3, Zenon DEF Load
    <2>2. Content' = Content
      BY <1>3, Zenon DEF Load, Content
    <2>3. pc[t] # "idle" /\ (Goto(t, "idle") \/ Goto(t, "open"))
      BY <1>3, Zenon DEF Load
    <2> QED
      BY <1>0, <2>1, <2>2, <2>3, InSetSteps, Zenon DEF S!Return, S!storeVars, Values
  <1>4. ASSUME NEW t \in Thread, Open(t)
        PROVE  S!Return(t) \/ UNCHANGED S!storeVars
    <2>1. got' = got /\ cut' = cut /\ arg' = arg
      BY <1>4, Zenon DEF Open
    <2>2. g_cfg_lock = t /\ t # None /\ file = ini
      BY <1>4, SettingsAssumption, Zenon DEF Open, IInv, Inside
    <2>3. Content' = Content
      BY <1>4, <2>2, Zenon DEF Open, Content
    <2>4. pc[t] # "idle" /\ (Goto(t, "idle") \/ Goto(t, "dump"))
      BY <1>4, Zenon DEF Open
    <2> QED
      BY <1>0, <2>1, <2>3, <2>4, InSetSteps, Zenon DEF S!Return, S!storeVars, Values
  <1>5. ASSUME NEW t \in Thread, NEW s \in Setting, Get(t, s)
        PROVE  S!Read(t, s)
    <2>1. InSet[t] = None /\ InSet' = InSet /\ cut' = cut
      BY <1>5, Zenon DEF Get, InSet
    <2>2. Content = file /\ Content' = file
      BY <1>5, Zenon DEF Get, Content
    <2>3. (IF Values(file)[s] # None THEN Values(file)[s] ELSE Default[s])
            = IF file.loads /\ file.ents[s] # None THEN file.ents[s] ELSE Default[s]
      BY Zenon DEF Values
    <2> QED
      BY <1>5, <2>1, <2>2, <2>3, Zenon DEF Get, S!Read, Values
  <1>6. CASE Crash
    <2>1. InSet' = [t \in Thread |-> None] /\ got' = [t \in Thread |-> None]
      BY <1>6, Zenon DEF Crash, InSet
    <2>2. CASE (\A t \in Thread : pc[t] # "dump") /\ UNCHANGED <<file, saved, cut>>
      <3>1. Content' = file
        BY <1>6, <2>2, Zenon DEF Crash, Content
      <3>2. Content = file
        <4>1. CASE g_cfg_lock = None
          BY <4>1, Zenon DEF Content
        <4>2. CASE g_cfg_lock \in Thread
          BY <2>2, <4>2, Zenon DEF Content, IInv, Inside
        <4> QED
          BY <1>0, <4>1, <4>2, Zenon DEF TypeOK
      <3> QED
        BY <2>1, <2>2, <3>1, <3>2, Zenon DEF S!Restart, S!StoreNext, Values
    <2>3. ASSUME NEW t \in Thread, pc[t] = "dump", cut' = TRUE
          PROVE  S!Restart
      <3>1. InSet[t] # None
        BY <1>0, <2>3, InSetSteps, Zenon
      <3>2. Content' \in Ini
        BY <1>0, NextType, Zenon DEF TypeOK, Content
      <3>3. Values(Content)' \in S!Contents
        BY <3>2, ValuesType, Zenon
      <3> QED
        BY <2>1, <2>3, <3>1, <3>3, Zenon DEF S!Restart
    <2> QED
      BY <1>6, <2>2, <2>3, Zenon DEF Crash, S!StoreNext
  <1>7. CASE UNCHANGED vars
    BY <1>7, Zenon DEF vars, S!storeVars, Values, Content, InSet
  <1> QED
    BY <1>1, <1>2, <1>3, <1>4, <1>5, <1>6, <1>7, DumpReturns, Zenon
    DEF Next, ThreadStep, S!StoreNext

\* ImplementsStore: under g_cfg_lock the sets and gets of any number of threads
\* are those of an atomic store, although every set empties the file and writes
\* it again, and although the process may be killed between any two steps.
THEOREM StoreImplemented ==
  ASSUME Reliable
  PROVE  Spec => ImplementsStore
  <1>1. Init => S!StoreInit
    <2> SUFFICES ASSUME Init PROVE S!StoreInit
      BY Zenon
    <2>1. Content \in Ini
      BY InitType, Zenon DEF Content, TypeOK
    <2>2. InSet = [t \in Thread |-> None]
      BY Zenon DEF Init, InSet
    <2> QED
      BY <2>1, <2>2, ValuesType, Zenon DEF Init, S!StoreInit
  <1> QED
    BY <1>1, InitIInv, NextIInv, NextRefines, PTL DEF Spec, ImplementsStore, S!StoreSpec
=============================================================================
