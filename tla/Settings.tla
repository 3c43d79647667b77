------------------------------ MODULE Settings ------------------------------
(***************************************************************************)
(* The settings that control.cpp applies and keeps in system.ini: set      *)
(* writes the value to a device and then rewrites the file through         *)
(* iniparser, get reads the file.  Threads of the application call both,   *)
(* g_cfg_lock serialises the uses of the file, and the process may be      *)
(* killed at any point.                                                    *)
(*                                                                         *)
(* A file is what iniparser_load makes of it: whether it loads, the        *)
(* sections it names, the values of the keys "control:<setting>", and the  *)
(* longest run of colons in front of a key that was saved without section. *)
(***************************************************************************)
EXTENDS Integers

CONSTANTS
  Thread, Setting, Value, None,
  Allowed,       \* the values each setting accepts
  Default,       \* what get returns for a setting that is not in the file
  InitFile,      \* what system.ini may be at first
  MaxColons,     \* bound: a key with more colons does not fit ASCIILINESZ
  MaxCalls,      \* bound: calls to set
  DeviceFails,   \* writing the device, or opening the file, may fail
  DiskFull,      \* the file may be cut short when it is written
  Crashes        \* the process may be killed and restarted

VARIABLES
  file,      \* system.ini
  device,    \* the value in effect, per setting
  g_cfg_lock,
  pc, arg,   \* where each thread is, and the setting and value of its call
  ini,       \* what the holder of the lock has loaded
  got,       \* what the last get of each thread returned
  saved,     \* history: the value of the last set that succeeded, forgotten
             \* when a write is interrupted
  used,      \* history: the values of all sets
  cut,       \* history: some write of the file was cut short
  mixed,     \* history: settings of which no set has returned success, or of
             \* which the last one failed or ran beside another one
  calls

vars == <<file, device, g_cfg_lock, pc, arg, ini, got, saved, used, cut, mixed, calls>>

NoValues == [s \in Setting |-> None]
Ini == [loads : BOOLEAN, secs : SUBSET {"control", "other"},
        ents : [Setting -> Value \cup {None}], colons : 0..MaxColons]
Empty == [loads |-> TRUE, secs |-> {}, ents |-> NoValues, colons |-> 0]

\* Mutant: a last line without newline is parsed, and gives a shorter number.
TornLoads == [Empty EXCEPT !.secs = {"control"},
                           !.ents = [s \in Setting |-> CHOOSE v \in Allowed[s] : v # Default[s]]]

\* The last line has no newline: iniparser_load takes it for one that is too
\* long and loads nothing, as it does when there is no file.
Torn == [Empty EXCEPT !.loads = FALSE]

ASSUME SettingsAssumption ==
  /\ None \notin Value /\ None \notin Thread /\ None \notin Setting \X Value
  /\ Allowed \in [Setting -> SUBSET Value] /\ Default \in [Setting -> Value]
  /\ InitFile \subseteq Ini
  /\ MaxColons \in Nat /\ MaxCalls \in Nat
  /\ DeviceFails \in BOOLEAN /\ DiskFull \in BOOLEAN /\ Crashes \in BOOLEAN

TypeOK ==
  /\ file \in Ini /\ ini \in Ini
  /\ device \in [Setting -> Value]
  /\ g_cfg_lock \in Thread \cup {None}
  /\ pc \in [Thread -> {"idle", "device", "load", "open", "dump"}]
  /\ arg \in [Thread -> Setting \X Value]
  /\ got \in [Thread -> (Setting \X Value) \cup {None}]
  /\ saved \in [Setting -> Value \cup {None}]
  /\ used \in [Setting -> SUBSET Value]
  /\ cut \in BOOLEAN
  /\ mixed \in SUBSET Setting
  /\ calls \in 0..MaxCalls

Init ==
  /\ file \in InitFile
  /\ ini = Empty
  /\ device = Default
  /\ g_cfg_lock = None
  /\ pc = [t \in Thread |-> "idle"]
  /\ arg \in [Thread -> {<<s, Default[s]>> : s \in Setting}]
  /\ got = [t \in Thread |-> None]
  /\ saved = NoValues
  /\ used = [s \in Setting |-> {file.ents[s]} \ {None}]
  /\ cut = FALSE /\ mixed = Setting /\ calls = 0

Name(t) == arg[t][1]
Goto(t, l) == pc' = [pc EXCEPT ![t] = l]

\* Whether some thread is in a set of s.
Busy(s) == \E t \in Thread : pc[t] # "idle" /\ Name(t) = s

\* A set ends without success, or goes on although the device was not written.
Fails(t) == mixed' = mixed \cup {Name(t)}

-----------------------------------------------------------------------------
\* setBrightness and setHdmiVoiceStatus.
SetCall(t, s, v) ==
  /\ pc[t] = "idle" /\ calls < MaxCalls
  /\ calls' = calls + 1
  /\ arg' = [arg EXCEPT ![t] = <<s, v>>]
  /\ used' = [used EXCEPT ![s] = @ \cup {v}]
  /\ Goto(t, "device")
  /\ mixed' = IF Busy(s) THEN mixed \cup {s} ELSE mixed \ {s}
  /\ UNCHANGED <<file, device, g_cfg_lock, ini, got, saved, cut>>

\* Mutant: the device is not written when the file holds the value already.
WriteDeviceUnlessSaved(t) ==
  /\ pc[t] = "device"
  /\ \/ /\ device' = IF file.ents[Name(t)] = arg[t][2] THEN device
                      ELSE [device EXCEPT ![Name(t)] = arg[t][2]]
        /\ \/ Goto(t, "load") /\ UNCHANGED mixed
           \/ DeviceFails /\ Goto(t, "idle") /\ Fails(t)
     \/ /\ DeviceFails
        /\ Goto(t, "load") \/ Goto(t, "idle")
        /\ Fails(t)
        /\ UNCHANGED device
  /\ UNCHANGED <<file, g_cfg_lock, arg, ini, got, saved, used, cut, calls>>

\* The device is written first, and without the lock.  A command that cannot
\* be run or is killed ends the call; one that only fails (rj_system returns its
\* positive exit status) does not.
WriteDevice(t) ==
  /\ pc[t] = "device"
  /\ \/ /\ device' = [device EXCEPT ![Name(t)] = arg[t][2]]
        /\ \/ Goto(t, "load") /\ UNCHANGED mixed
           \/ DeviceFails /\ Goto(t, "idle") /\ Fails(t)
     \/ /\ DeviceFails
        /\ Goto(t, "load") \/ Goto(t, "idle")
        /\ Fails(t)
        /\ UNCHANGED device
  /\ UNCHANGED <<file, g_cfg_lock, arg, ini, got, saved, used, cut, calls>>

\* Mutant: rj_set_int_conf does not take the lock.
LoadUnlocked(t) ==
  /\ pc[t] = "load"
  /\ \/ file.loads /\ ini' = file /\ g_cfg_lock' = t /\ Goto(t, "open") /\ UNCHANGED mixed
     \/ ~file.loads /\ Goto(t, "idle") /\ Fails(t) /\ UNCHANGED <<ini, g_cfg_lock>>
  /\ UNCHANGED <<file, device, arg, got, saved, used, cut, calls>>

\* rj_set_int_conf: the file is loaded, opened for writing (which empties it),
\* and written again with the new value.
Load(t) ==
  /\ pc[t] = "load" /\ g_cfg_lock = None
  /\ \/ file.loads /\ ini' = file /\ g_cfg_lock' = t /\ Goto(t, "open") /\ UNCHANGED mixed
     \/ ~file.loads /\ Goto(t, "idle") /\ Fails(t) /\ UNCHANGED <<ini, g_cfg_lock>>
  /\ UNCHANGED <<file, device, arg, got, saved, used, cut, calls>>

\* Mutant: the lock is not released when the file cannot be opened.
OpenKeepsLock(t) ==
  /\ pc[t] = "open"
  /\ \/ file' = Empty /\ Goto(t, "dump") /\ UNCHANGED mixed
     \/ DeviceFails /\ Goto(t, "idle") /\ Fails(t) /\ UNCHANGED file
  /\ UNCHANGED <<device, g_cfg_lock, arg, ini, got, saved, used, cut, calls>>

Open(t) ==
  /\ pc[t] = "open"
  /\ \/ file' = Empty /\ Goto(t, "dump") /\ UNCHANGED <<g_cfg_lock, mixed>>
     \/ DeviceFails /\ Goto(t, "idle") /\ Fails(t) /\ g_cfg_lock' = None /\ UNCHANGED file
  /\ UNCHANGED <<device, arg, ini, got, saved, used, cut, calls>>

\* Mutant: the whole key is written under its section as well.
ReloadGrows(d) ==
  [loads |-> d.colons < MaxColons, secs |-> d.secs,
   ents |-> IF "control" \in d.secs THEN d.ents ELSE NoValues,
   colons |-> IF d.colons < MaxColons THEN d.colons + 1 ELSE MaxColons]

\* iniparser_dump_ini read back by iniparser_load.  Under sections, only keys
\* of a section that is there are written.  Without any section the whole key
\* is written as a name, and is loaded with one more colon in front of it, until
\* the line is too long.
Reload(d) ==
  IF d.secs = {}
  THEN [loads |-> d.colons < MaxColons, secs |-> {}, ents |-> NoValues,
        colons |-> IF d.colons < MaxColons THEN d.colons + 1 ELSE MaxColons]
  ELSE [loads |-> TRUE, secs |-> d.secs, colons |-> 0,
        ents |-> IF "control" \in d.secs THEN d.ents ELSE NoValues]

WithValue(t) == [ini EXCEPT !.ents[Name(t)] = arg[t][2]]

\* What a dump that is cut short leaves: some of its lines, or a torn one.
Cut(d, secs, kept) ==
  [d EXCEPT !.secs = secs,
            !.ents = [s \in Setting |->
              IF "control" \in secs /\ s \in kept THEN d.ents[s] ELSE None]]
Partial(d) ==
  {Torn, Empty, d} \cup UNION {{Cut(d, secs, kept) : kept \in SUBSET Setting} : secs \in SUBSET d.secs}

\* The results of iniparser_dump_ini, fflush and fsync are not looked at.
Dump(t) ==
  /\ pc[t] = "dump"
  /\ \/ file' = Reload(WithValue(t)) /\ UNCHANGED cut
     \/ DiskFull /\ file' \in Partial(Reload(WithValue(t))) /\ cut' = TRUE
  /\ saved' = [saved EXCEPT ![Name(t)] = arg[t][2]]
  /\ g_cfg_lock' = None
  /\ Goto(t, "idle")
  /\ UNCHANGED <<device, arg, ini, got, used, mixed, calls>>

\* Mutant: rj_get_int_conf does not take the lock.
GetUnlocked(t, s) ==
  /\ pc[t] = "idle"
  /\ got' = [got EXCEPT ![t] =
       <<s, IF file.loads /\ file.ents[s] # None THEN file.ents[s] ELSE Default[s]>>]
  /\ UNCHANGED <<file, device, g_cfg_lock, pc, arg, ini, saved, used, cut, mixed, calls>>

\* getBrightness and getHdmiVoiceStatus: rj_get_int_conf.
Get(t, s) ==
  /\ pc[t] = "idle" /\ g_cfg_lock = None
  /\ got' = [got EXCEPT ![t] =
       <<s, IF file.loads /\ file.ents[s] # None THEN file.ents[s] ELSE Default[s]>>]
  /\ UNCHANGED <<file, device, g_cfg_lock, pc, arg, ini, saved, used, cut, mixed, calls>>

\* The process is killed and started again.
Crash ==
  /\ Crashes
  /\ \/ /\ \E t \in Thread : pc[t] = "dump" /\ file' \in Partial(Reload(WithValue(t)))
        /\ saved' = NoValues /\ cut' = TRUE
     \/ (\A t \in Thread : pc[t] # "dump") /\ UNCHANGED <<file, saved, cut>>
  /\ g_cfg_lock' = None
  /\ pc' = [t \in Thread |-> "idle"]
  /\ got' = [t \in Thread |-> None]
  /\ mixed' = mixed \cup {s \in Setting : Busy(s)}
  /\ UNCHANGED <<device, arg, ini, used, calls>>

ThreadStep(t) == WriteDevice(t) \/ Load(t) \/ Open(t) \/ Dump(t)

Next ==
  \/ \E t \in Thread :
       ThreadStep(t) \/ \E s \in Setting : Get(t, s) \/ \E v \in Allowed[s] : SetCall(t, s, v)
  \/ Crash

Spec == Init /\ [][Next]_vars

\* Every thread in a call goes on when it can.
FairSpec == Spec /\ \A t \in Thread : WF_vars(ThreadStep(t))

-----------------------------------------------------------------------------
\* What has been saved is in the file.
SavedIn(f) == \A s \in Setting : saved[s] # None => f.loads /\ f.ents[s] = saved[s]

\* Between two uses of the file it holds, for every setting, the value of the
\* last set that returned success (rj_set_int_conf, lines 29-71), as long as no
\* write was cut short: sets of two settings by two threads do not undo each
\* other, what is saved is found again, and a process killed at any other
\* moment loses nothing.
SavedIsRead == ~cut /\ g_cfg_lock = None => SavedIn(file)

\* "save the brightness to ini." (line 190): what a set that returned success
\* has saved is found again, also in the process started after one was killed.
SavedAfterCrash == g_cfg_lock = None => SavedIn(file)

\* The inductive invariant behind SavedIsRead.  Only the holder of the lock is
\* between load and unlock, and what it has loaded is what the file held: the
\* saved values are in the file, or, from the moment fopen has emptied it, in
\* ini alone.
Inside(t) == pc[t] \in {"open", "dump"}
Content == IF g_cfg_lock = None THEN file ELSE ini
IInv ==
  /\ TypeOK
  /\ \A t \in Thread : Inside(t) <=> g_cfg_lock = t
  /\ g_cfg_lock # None => ini.loads
  /\ \A t \in Thread : pc[t] = "open" => file = ini
  /\ ~cut => SavedIn(Content) /\ (Content.loads => "control" \in Content.secs)

\* A file that loads goes on loading, however often it is saved: as long as no
\* write is cut short the sections stay, and only keys saved without a section
\* grow (iniparser_dump_ini, lines 214-252) until iniparser_load takes their
\* lines for too long (lines 587-599).
KeepsLoading == [][~cut' /\ Content.loads => Content'.loads]_vars

\* system.ini under g_cfg_lock is an atomic store: although a set loads, empties
\* and rewrites the file in steps (lines 35-71), it takes effect at one moment
\* between its call and its return, and a get (lines 73-94) sees the values of
\* one moment, never a file that is being written, whatever threads do at the
\* same time and wherever the process is killed outside a write.
Values(f) == [s \in Setting |-> IF f.loads THEN f.ents[s] ELSE None]
InSet == [t \in Thread |-> IF pc[t] = "idle" THEN None ELSE arg[t]]
S == INSTANCE SettingsStore WITH store <- Values(Content), pending <- InSet, broken <- cut
ImplementsStore == S!StoreSpec

\* setBrightness and setHdmiVoiceStatus write the device without the lock and the
\* file after that (lines 185-194 and 277-286), so two callers can order them
\* differently and a failure can come between them.  But once a set of a setting
\* has run without another set of it beside it, has reached the device and has
\* returned success, device and file hold the same value, whatever happened to
\* both before and whatever other settings are set meanwhile, as long as no
\* write was cut short.
DeviceIsFile ==
  ~cut /\ g_cfg_lock = None =>
    \A s \in Setting \ mixed : ~Busy(s) => file.loads /\ file.ents[s] = device[s]

\* What makes it inductive: a setting that is not mixed has at most one set in
\* progress, which from its second step on has the device as it wants it.
MInv ==
  \A s \in Setting \ mixed :
    /\ \A t, u \in Thread :
         pc[t] # "idle" /\ pc[u] # "idle" /\ Name(t) = s /\ Name(u) = s => t = u
    /\ \A t \in Thread :
         pc[t] \in {"load", "open", "dump"} /\ Name(t) = s => device[s] = arg[t][2]
    /\ ~Busy(s) => cut \/ saved[s] = device[s]

\* Whatever was killed when, get returns the default or a value that was set
\* (lines 73-94).
ReadsWereSet ==
  \A t \in Thread : got[t] # None => got[t][2] \in used[got[t][1]] \cup {Default[got[t][1]]}

\* What makes it inductive: no value comes into the file from anywhere else.
FromUsed(f) == \A s \in Setting : f.ents[s] \in used[s] \cup {None}
UInv ==
  /\ TypeOK
  /\ FromUsed(file) /\ FromUsed(ini)
  /\ \A t \in Thread : pc[t] # "idle" => arg[t][2] \in used[arg[t][1]]
  /\ ReadsWereSet

\* Every set returns: each way out of rj_set_int_conf releases the lock.
SetReturns == \A t \in Thread : (pc[t] # "idle") ~> (pc[t] = "idle")
=============================================================================
