----------------------------- MODULE ServerProcess -----------------------------
(***************************************************************************)
(* The server's Main over several starts: it reads config/config.toml, writes *)
(* a default file when that fails, runs until Ctrl-C, and may crash anywhere. *)
(* An operator edits the file at any time.  What Stop does meanwhile is in     *)
(* ServerCore.                                                                 *)
(***************************************************************************)
EXTENDS Naturals

VARIABLES
    file,       \* config/config.toml
    main,       \* where Main stands; "off" when there is no process
    settings,   \* Main's locals host, port, apiUrl and apiKey
    cancelled,  \* the cancellation token
    edited,     \* history: the file was edited since Main last read it
    known,      \* history: a server ran since the last edit
    ran         \* history: the settings it ran with

historyVars == <<edited, known, ran>>
vars == <<file, main, settings, cancelled, historyVars>>

\* The keys in the order in which Main looks them up.
host == 1
port == 2
apiUrl == 3
apiKey == 4
Keys == 1..4

\* "invalid" is a value of another type than the key's.
Settings == [Keys -> {"default", "custom"}]
Files == [Keys -> {"missing", "invalid", "default", "custom"}]

\* A file that is not there, was cut off or does not parse sets no key.
NoFile == [k \in Keys |-> "missing"]

Defaults == [k \in Keys |-> "default"]

MainStates == {"off", "reading", "creating", "writing", "building", "starting", "waiting"}

Init ==
    /\ file \in Files
    /\ main = "off"
    /\ settings = Defaults
    /\ cancelled = FALSE
    /\ edited = FALSE
    /\ known = FALSE
    /\ ran = Defaults

-------------------------------------------------------------------------------
(* Reading the file.                                                         *)

\* TomlTable's indexer throws for a missing key, Convert.ToInt32 for a port that
\* is no number; "as string" turns another type into null, hence the default.
Throws(k, entry) == entry = "missing" \/ (k = port /\ entry = "invalid")

Readable(f) == \A k \in Keys : ~Throws(k, f[k])

\* Mutant: a value of the wrong type is used as it is.
Load_NoTypeCheck(f) ==
    [k \in Keys |-> IF \A j \in 1..k : ~Throws(j, f[j]) THEN f[k] ELSE "default"]

\* The keys before the first one that throws are taken over, the others keep
\* their default.
Load(f) ==
    [k \in Keys |-> IF f[k] = "custom" /\ \A j \in 1..k : ~Throws(j, f[j])
                    THEN "custom" ELSE "default"]

Boot ==
    /\ main = "off"
    /\ main' = "reading"
    /\ UNCHANGED <<file, settings, cancelled, historyVars>>

\* An error of ReadAllText is caught like a file that does not parse.
Read ==
    /\ main = "reading"
    /\ \E text \in {file, NoFile} :
        /\ settings' = Load(text)
        /\ main' = IF Readable(text) THEN "building" ELSE "creating"
    /\ edited' = FALSE
    /\ UNCHANGED <<file, cancelled, known, ran>>

\* CreateDefaultConfig: WriteAllText truncates the file ...
TruncateFile ==
    /\ main = "creating"
    /\ file' = NoFile
    /\ main' = "writing"
    /\ UNCHANGED <<settings, cancelled, historyVars>>

\* Mutant: the default file lacks the last key.
WriteFile_NoApiKey ==
    /\ main = "writing"
    /\ file' = [Defaults EXCEPT ![apiKey] = "missing"]
    /\ main' = "building"
    /\ UNCHANGED <<settings, cancelled, historyVars>>

\* ... and then writes it.  If either fails the exception ends Main (Crash).
WriteFile ==
    /\ main = "writing"
    /\ file' = Defaults
    /\ main' = "building"
    /\ UNCHANGED <<settings, cancelled, historyVars>>

-------------------------------------------------------------------------------
(* Running.                                                                  *)

EndMain ==
    /\ main' = "off"
    /\ settings' = Defaults
    /\ cancelled' = FALSE
    /\ UNCHANGED <<file, historyVars>>

\* Mutant: the default API address is accepted.
Usable_Always(s) == s \in Settings

\* ApiInterface makes a Uri of the API's address; the empty default is none.
Usable(s) == s[apiUrl] = "custom"

\* The constructor may throw for a custom setting, too; otherwise the callback
\* and the handler of Ctrl-C are registered.
Build ==
    /\ main = "building"
    /\ \/ /\ Usable(settings)
          /\ main' = "starting"
          /\ UNCHANGED <<file, settings, cancelled, historyVars>>
       \/ EndMain

\* The first run since the last edit is remembered, if it read the edited file.
Remember ==
    /\ UNCHANGED edited
    /\ IF edited \/ known THEN UNCHANGED <<known, ran>>
                         ELSE known' = TRUE /\ ran' = settings

\* Mutant: the token that Main waits on is created after the start.
Start_NewToken ==
    /\ main = "starting"
    /\ main' = "waiting"
    /\ cancelled' = FALSE
    /\ Remember
    /\ UNCHANGED <<file, settings>>

\* Start throws when the port is taken, or when Stop has disposed the listener.
Start ==
    /\ main = "starting"
    /\ \/ /\ main' = "waiting"
          /\ Remember
          /\ UNCHANGED <<file, settings, cancelled>>
       \/ EndMain

\* On the console's thread: Cancel also runs Stop, before or after Main ends.
CancelKeyPress ==
    /\ main \in {"starting", "waiting"}
    /\ cancelled' = TRUE
    /\ UNCHANGED <<file, main, settings, historyVars>>

\* Task.Delay throws TaskCanceledException, at once if it comes too late.
DelayEnds ==
    /\ main = "waiting"
    /\ cancelled
    /\ EndMain

-------------------------------------------------------------------------------
Crash == main # "off" /\ EndMain

Edit(f) ==
    /\ file' = f
    /\ edited' = TRUE
    /\ known' = FALSE
    /\ ran' = Defaults
    /\ UNCHANGED <<main, settings, cancelled>>

MainStep == Read \/ TruncateFile \/ WriteFile \/ Build \/ Start \/ DelayEnds

Next == Boot \/ MainStep \/ CancelKeyPress \/ Crash \/ (\E f \in Files : Edit(f))

\* Main's thread runs; nobody has to start it, press Ctrl-C or edit the file.
Spec == Init /\ [][Next]_vars /\ WF_vars(MainStep)

-------------------------------------------------------------------------------
TypeOK ==
    /\ file \in Files
    /\ main \in MainStates
    /\ settings \in Settings
    /\ cancelled \in BOOLEAN
    /\ edited \in BOOLEAN /\ known \in BOOLEAN
    /\ ran \in Settings

\* Unless somebody edits the file, a server that crashed or was stopped never
\* runs again with other settings than before, although a start that finds one
\* bad key overwrites the whole file with defaults and goes on with the values
\* it had read: the default API address keeps such a file from being run
\* (Program.cs, Main and CreateDefaultConfig; ApiInterface.cs, the constructor).
RestartsAlike == main = "waiting" /\ known => settings = ran

\* Whatever a crash left on disk, a start that gets as far as building the
\* server has read, or leaves behind, a file that the next start can read
\* (Program.cs, the catch block of Main and CreateDefaultConfig).
FileHeals == [][main # "building" /\ main' = "building" => Readable(file')]_vars

\* What the README says: the server is configured by config.toml.  A file whose
\* last key alone is missing is replaced by the defaults while the server runs
\* with the values it held (Program.cs, the catch block of Main).
RunsAsConfigured == main = "waiting" /\ ~edited => settings = Load(file)

\* Ctrl-C ends the process, also when it comes between the registration of the
\* handler and the wait (Program.cs, CancelKeyPress and Task.Delay).
CancelEndsMain == cancelled ~> main = "off"
===============================================================================
