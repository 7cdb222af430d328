-------------------------- MODULE ServerProcessProofs --------------------------
(***************************************************************************)
(* Proofs about ServerProcess: type correctness, that a start leaves a       *)
(* readable file behind, and that a server restarts with the settings it had. *)
(***************************************************************************)
EXTENDS ServerProcess, TLAPS

LEMMA LoadType == ASSUME NEW f \in Files PROVE Load(f) \in Settings
  BY DEF Load, Settings

\* Neither a missing file nor the default one configures anything, and both
\* are files; only the default one is readable.
LEMMA DefaultFiles ==
    /\ NoFile \in Files /\ Load(NoFile) = Defaults /\ ~Readable(NoFile)
    /\ Defaults \in Files /\ Load(Defaults) = Defaults /\ Readable(Defaults)
    /\ Defaults \in Settings /\ ~Usable(Defaults)
  BY DEF NoFile, Files, Load, Defaults, Readable, Throws, Settings, Usable, Keys, host, port,
         apiUrl, apiKey

LEMMA TypeOKInit == Init => TypeOK
  BY DefaultFiles DEF Init, TypeOK, MainStates

LEMMA TypeOKStep == TypeOK /\ [Next]_vars => TypeOK'
  <1> SUFFICES ASSUME TypeOK, [Next]_vars PROVE TypeOK'
    OBVIOUS
  <1> USE DefaultFiles
  <1>1. CASE UNCHANGED vars
    BY <1>1 DEF TypeOK, vars, historyVars
  <1>2. CASE Boot
    BY <1>2 DEF TypeOK, Boot, historyVars, MainStates
  <1>3. CASE Read
    <2>1. PICK text \in {file, NoFile} : settings' = Load(text)
      BY <1>3 DEF Read
    <2> QED
      BY <1>3, <2>1, LoadType DEF TypeOK, Read, MainStates
  <1>4. CASE TruncateFile \/ WriteFile
    BY <1>4 DEF TypeOK, TruncateFile, WriteFile, historyVars, MainStates
  <1>5. CASE Build
    BY <1>5 DEF TypeOK, Build, EndMain, historyVars, MainStates
  <1>6. CASE Start
    BY <1>6 DEF TypeOK, Start, Remember, EndMain, historyVars, MainStates
  <1>7. CASE DelayEnds \/ Crash
    BY <1>7 DEF TypeOK, DelayEnds, Crash, EndMain, historyVars, MainStates
  <1>8. CASE CancelKeyPress
    BY <1>8 DEF TypeOK, CancelKeyPress, historyVars
  <1>9. ASSUME NEW f \in Files, Edit(f) PROVE TypeOK'
    BY <1>9 DEF TypeOK, Edit
  <1> QED
    BY <1>1, <1>2, <1>3, <1>4, <1>5, <1>6, <1>7, <1>8, <1>9 DEF Next, MainStep

\* The file stays a file and the settings stay settings.
THEOREM TypeCorrect == Spec => []TypeOK
  BY TypeOKInit, TypeOKStep, PTL DEF Spec

-------------------------------------------------------------------------------
\* Main builds the server from the file as it is, or has written the defaults.
BuiltInv ==
    main \in {"building", "starting", "waiting"} /\ ~edited =>
        (Readable(file) /\ settings = Load(file)) \/ file = Defaults

\* Once a server ran, the file holds its settings or loads as the defaults, and
\* so does every later start as long as nobody edits the file.
KnownInv ==
    known => /\ ~edited
             /\ Load(file) \in {ran, Defaults}
             /\ main \notin {"off", "reading"} => settings \in {ran, Defaults}

\* Only usable settings get as far as starting a server.
UsableInv == main \in {"starting", "waiting"} => Usable(settings)

ConfigInv == BuiltInv /\ KnownInv /\ UsableInv

LEMMA ConfigInvInit == Init => ConfigInv
  BY DEF Init, ConfigInv, BuiltInv, KnownInv, UsableInv

LEMMA ConfigInvStep == ConfigInv /\ [Next]_vars => ConfigInv'
  <1> SUFFICES ASSUME ConfigInv, [Next]_vars PROVE ConfigInv'
    OBVIOUS
  <1> USE DefaultFiles DEF ConfigInv, BuiltInv, KnownInv, UsableInv
  <1>1. CASE UNCHANGED vars
    BY <1>1 DEF vars, historyVars
  <1>2. CASE Boot
    BY <1>2 DEF Boot, historyVars
  <1>3. CASE Read
    <2>1. PICK text \in {file, NoFile} :
              /\ settings' = Load(text)
              /\ main' = IF Readable(text) THEN "building" ELSE "creating"
      BY <1>3 DEF Read
    <2>2. edited' = FALSE /\ UNCHANGED <<file, cancelled, known, ran>>
      BY <1>3 DEF Read
    <2> QED
      BY <2>1, <2>2
  <1>4. CASE TruncateFile
    BY <1>4 DEF TruncateFile, historyVars
  <1>5. CASE WriteFile
    BY <1>5 DEF WriteFile, historyVars
  <1>6. CASE Build
    BY <1>6 DEF Build, EndMain, historyVars
  <1>7. CASE Start
    BY <1>7 DEF Start, Remember, EndMain, historyVars
  <1>8. CASE DelayEnds \/ Crash
    BY <1>8 DEF DelayEnds, Crash, EndMain, historyVars
  <1>9. CASE CancelKeyPress
    BY <1>9 DEF CancelKeyPress, historyVars
  <1>10. ASSUME NEW f \in Files, Edit(f) PROVE ConfigInv'
    BY <1>10 DEF Edit
  <1> QED
    BY <1>1, <1>2, <1>3, <1>4, <1>5, <1>6, <1>7, <1>8, <1>9, <1>10 DEF Next, MainStep

LEMMA ConfigInvariant == Spec => []ConfigInv
  BY ConfigInvInit, ConfigInvStep, PTL DEF Spec

\* After any sequence of crashes and restarts without an edit a server runs
\* with the settings it ran with before.
THEOREM RestartsKeepSettings == Spec => []RestartsAlike
  <1>1. ConfigInv => RestartsAlike
    BY DefaultFiles DEF ConfigInv, KnownInv, UsableInv, RestartsAlike
  <1> QED
    BY <1>1, ConfigInvariant, PTL

\* A start that gets as far as building the server leaves a readable file.
THEOREM StartsHealTheFile == Spec => FileHeals
  <1>1. [Next]_vars => [main # "building" /\ main' = "building" => Readable(file')]_vars
    <2> SUFFICES ASSUME Next, main # "building", main' = "building" PROVE Readable(file')
      OBVIOUS
    <2>1. CASE Read
      <3>1. PICK text \in {file, NoFile} : Readable(text)
        BY <2>1 DEF Read
      <3> QED
        BY <2>1, <3>1, DefaultFiles DEF Read
    <2>2. CASE WriteFile
      BY <2>2, DefaultFiles DEF WriteFile
    <2>3. CASE Boot \/ TruncateFile \/ Build \/ Start \/ DelayEnds \/ Crash
      BY <2>3 DEF Boot, TruncateFile, Build, Start, DelayEnds, Crash, EndMain
    <2>4. CASE CancelKeyPress \/ (\E f \in Files : Edit(f))
      BY <2>4 DEF CancelKeyPress, Edit
    <2> QED
      BY <2>1, <2>2, <2>3, <2>4 DEF Next, MainStep
  <1> QED
    BY <1>1, PTL DEF Spec, FileHeals
===============================================================================
