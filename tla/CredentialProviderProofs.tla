----------------------- MODULE CredentialProviderProofs -----------------------
(***************************************************************************)
(* For any users and settings: an approval logs on at most once, and only  *)
(* the tile that is selected, or that LogonUI is just ending, asks phones; *)
(* what is packed for Windows is what was given to be packed; and a tile   *)
(* that is selected never stops being of use.                              *)
(***************************************************************************)
EXTENDS CredentialProvider, TLAPS

Ending == {"list", "gone"}

\* What LogonUI's thread is doing agrees with the tile that is selected.
ThreadOfUI ==
    /\ ui.then \in Ending => selected = None /\ ui.at \in {"release", "join"}
    /\ ui.at = "release" => ui.then \in Ending
    /\ ui.at = "retry" \/ (ui.at = "join" /\ ui.then = "retry") =>
          ui.user = selected /\ ui.user \in Users
    /\ ui.at = "join" => ui.user \in Users /\ ui.then # "none"
    /\ selected # None => tiles[selected].listed

\* Where a listen thread may be alive.
ThreadsOfTiles ==
    \A u \in Users : Alive(u) =>
        /\ tiles[u].listed
        /\ u = selected \/ (ui.at = "join" /\ u = ui.user) \/ ui.then \in Ending

CredentialInv == TypeOK /\ ThreadOfUI /\ ThreadsOfTiles /\ ApprovalUsedOnce

LEMMA RecordFinished ==
    ASSUME NEW m, NEW d, NEW user, NEW p, NEW cb
    PROVE  [finished |-> TRUE, MessageType |-> m, domain |-> d, user |-> user,
            password |-> p, cb |-> cb].finished = TRUE
  OBVIOUS

LEMMA SerializationsTyped ==
    ASSUME NEW local, NEW name, NEW chars, NEW cpus,
           NEW s \in Serializations(local, name, chars, cpus)
    PROVE  s.finished \in BOOLEAN
  <1>1. CASE s = NotFinished
    BY <1>1 DEF NotFinished
  <1>2. ASSUME s \in PackLocal(name, chars, cpus)
        PROVE  s.finished \in BOOLEAN
    <2> DEFINE Kiuls ==
          UNION {KerbInteractiveUnlockLogonInit(split.domain, split.user,
                     ProtectIfNecessaryAndCopyPassword(chars, cpus, protected), cpus) :
                 split \in SplitDomainAndUsername(name), protected \in BOOLEAN}
    <2>0. PackLocal(name, chars, cpus) =
             {KerbInteractiveUnlockLogonPack(kiul) : kiul \in Kiuls}
      BY DEF PackLocal
    <2> HIDE DEF Kiuls
    <2>1. PICK kiul : s = KerbInteractiveUnlockLogonPack(kiul)
      BY <2>0, <1>2
    <2> QED
      BY <2>1, RecordFinished DEF KerbInteractiveUnlockLogonPack
  <1>3. ASSUME s \in PackOther
        PROVE  s.finished \in BOOLEAN
    <2>1. s = [finished |-> TRUE, MessageType |-> "CredPack"]
      BY <1>3 DEF PackOther
    <2>2. s.finished = TRUE
      BY <2>1
    <2> QED
      BY <2>2
  <1>4. CASE local
    BY <1>1, <1>2, <1>4 DEF Serializations
  <1>5. CASE ~local
    BY <1>1, <1>3, <1>5 DEF Serializations
  <1> QED
    BY <1>4, <1>5

LEMMA NewTileTyped ==
    ASSUME NEW listed \in BOOLEAN, NEW cpus \in Scenarios
    PROVE  /\ NewTile(listed, cpus) \in Tiles
           /\ NewTile(listed, cpus).result = "UNKNOWN"
           /\ NewTile(listed, cpus).listed = listed
  BY DEF NewTile, Tiles, Outcomes

\* A provider that has just been made keeps the invariant.
LEMMA NewProviderKeeps ==
    ASSUME NEW cpus \in Scenarios, NewProvider(cpus), UNCHANGED setting, TypeOK
    PROVE  CredentialInv'
  <1>1. \A u \in Users : /\ tiles'[u] \in Tiles /\ tiles'[u].result = "UNKNOWN"
                         /\ thread'[u] = "none"
    BY NewTileTyped DEF NewProvider
  <1>2. TypeOK'
    BY <1>1, NewTileTyped DEF NewProvider, TypeOK, ThreadPcs, Idle, NotFinished
  <1>3. ThreadOfUI' /\ ThreadsOfTiles' /\ ApprovalUsedOnce'
    BY <1>1 DEF NewProvider, ThreadOfUI, ThreadsOfTiles, ApprovalUsedOnce, Alive, Idle,
                IsUnlockSuccess, Ending
  <1> QED
    BY <1>2, <1>3 DEF CredentialInv

LEMMA CredentialInvInit == Init => CredentialInv
  <1> SUFFICES ASSUME Init PROVE CredentialInv
    OBVIOUS
  <1>1. PICK cpus \in Scenarios :
            /\ provider = [cpus |-> cpus, recreate |-> TRUE, events |-> TRUE]
            /\ tiles = [u \in Users |-> NewTile(FALSE, cpus)]
    BY DEF Init
  <1>2. tiles \in [Users -> Tiles] /\ \A u \in Users : tiles[u].result = "UNKNOWN"
    BY <1>1, NewTileTyped
  <1>3. ui = Idle /\ ui.at = "idle" /\ ui.user = None /\ ui.then = "none"
    BY DEF Init, Idle
  <1>4. TypeOK
    <2>1. provider \in [cpus : Scenarios, recreate : BOOLEAN, events : BOOLEAN]
      BY <1>1
    <2>2. thread \in [Users -> ThreadPcs]
      BY DEF Init, ThreadPcs
    <2>3. serialization.finished \in BOOLEAN
      BY DEF Init, NotFinished
    <2>4. ui \in [at : {"idle", "retry", "join", "logon", "submitted", "release", "gone"},
                  user : Users \cup {None},
                  then : {"none", "deselected", "retry", "list", "gone"}]
      BY <1>3 DEF Idle
    <2> QED
      BY <1>2, <2>1, <2>2, <2>3, <2>4 DEF Init, TypeOK
  <1>5. ThreadOfUI /\ ThreadsOfTiles /\ ApprovalUsedOnce
    BY <1>2, <1>3 DEF Init, ThreadOfUI, ThreadsOfTiles, ApprovalUsedOnce, Alive,
                      IsUnlockSuccess, Ending
  <1> QED
    BY <1>4, <1>5 DEF CredentialInv

\* A listen thread moves on, and perhaps ends: SetUnlockData apart it changes no tile.
LEMMA ListenStepKeeps ==
    ASSUME CredentialInv, NEW u \in Users, NEW from, NEW to \in ThreadPcs,
           Alive(u), ThreadStep(u, from, to), UNCHANGED tiles,
           changed' \in BOOLEAN, excused' \subseteq Users
    PROVE  CredentialInv'
  <1>1. TypeOK'
    BY DEF CredentialInv, TypeOK, ThreadStep
  <1>2. ThreadOfUI'
    BY DEF CredentialInv, ThreadOfUI, ThreadStep
  <1>3. ThreadsOfTiles'
    BY DEF CredentialInv, TypeOK, ThreadsOfTiles, Alive, ThreadStep
  <1>4. ApprovalUsedOnce'
    BY DEF CredentialInv, ApprovalUsedOnce, IsUnlockSuccess, ThreadStep
  <1> QED
    BY <1>1, <1>2, <1>3, <1>4 DEF CredentialInv

\* Storing a part of one tile leaves the tiles listed as they were.
LEMMA TileStored ==
    ASSUME TypeOK, NEW u \in Users, NEW result \in Outcomes,
           tiles' = [tiles EXCEPT ![u].result = result]
    PROVE  /\ tiles' \in [Users -> Tiles]
           /\ \A v \in Users : tiles'[v].listed = tiles[v].listed
           /\ \A v \in Users \ {u} : tiles'[v].result = tiles[v].result
           /\ tiles'[u].result = result
           /\ \A v \in Users : tiles'[v].running = tiles[v].running
  <1>1. tiles[u] \in Tiles
    BY DEF TypeOK
  <1>2. [tiles[u] EXCEPT !.result = result] \in Tiles
    BY <1>1 DEF Tiles
  <1> QED
    BY <1>1, <1>2 DEF TypeOK, Tiles

TilesAlike ==
    /\ tiles' \in [Users -> Tiles]
    /\ \A v \in Users : /\ tiles'[v].listed = tiles[v].listed
                       /\ tiles'[v].result = tiles[v].result

LEMMA TileStopped ==
    ASSUME TypeOK, NEW u \in Users, NEW then, Stop(u, then)
    PROVE  /\ TilesAlike /\ ~tiles'[u].running
           /\ \A v \in Users \ {u} : tiles'[v] = tiles[v]
  <1>1. tiles[u] \in Tiles
    BY DEF TypeOK
  <1>2. [[tiles[u] EXCEPT !.running = FALSE] EXCEPT !.ignoreWait = FALSE] \in Tiles
    BY <1>1 DEF Tiles
  <1> QED
    BY <1>1, <1>2 DEF TypeOK, Tiles, Stop, TilesAlike

LEMMA TilePassword ==
    ASSUME TypeOK, NEW u \in Users, NEW typed \in BOOLEAN,
           tiles' = [tiles EXCEPT ![u].password = typed]
    PROVE  TilesAlike /\ \A v \in Users : tiles'[v].running = tiles[v].running
  <1>1. tiles[u] \in Tiles
    BY DEF TypeOK
  <1>2. [tiles[u] EXCEPT !.password = typed] \in Tiles
    BY <1>1 DEF Tiles
  <1> QED
    BY <1>1, <1>2 DEF TypeOK, Tiles, TilesAlike

LEMMA TileStarted ==
    ASSUME TypeOK, NEW u \in Users, NEW ignoreWait \in BOOLEAN, Start(u, ignoreWait)
    PROVE  /\ TilesAlike
           /\ thread' \in [Users -> ThreadPcs]
           /\ \A v \in Users \ {u} : thread'[v] = thread[v]
           /\ excused' \subseteq Users
           /\ \A v \in Users \ {u} : tiles'[v] = tiles[v]
           /\ IF tiles[u].running THEN UNCHANGED <<tiles, thread, excused>>
                                   ELSE thread'[u] = "init" /\ excused' = excused \ {u}
  <1>1. CASE tiles[u].running
    BY <1>1 DEF Start, TypeOK, TilesAlike
  <1>2. CASE ~tiles[u].running
    <2>1. tiles[u] \in Tiles
      BY DEF TypeOK
    <2>2. [[tiles[u] EXCEPT !.running = TRUE] EXCEPT !.ignoreWait = ignoreWait] \in Tiles
      BY <2>1 DEF Tiles
    <2>3. tiles' = [tiles EXCEPT ![u].running = TRUE, ![u].ignoreWait = ignoreWait]
      BY <1>2 DEF Start
    <2>4. TilesAlike /\ \A v \in Users \ {u} : tiles'[v] = tiles[v]
      BY <2>1, <2>2, <2>3 DEF TypeOK, Tiles, TilesAlike
    <2> QED
      BY <1>2, <2>4 DEF Start, TypeOK, ThreadPcs
  <1> QED
    BY <1>1, <1>2

UIs == [at : {"idle", "retry", "join", "logon", "submitted", "release", "gone"},
        user : Users \cup {None},
        then : {"none", "deselected", "retry", "list", "gone"}]

LEMMA CredentialInvStep == CredentialInv /\ [Next]_vars => CredentialInv'
  <1> SUFFICES ASSUME CredentialInv, [Next]_vars PROVE CredentialInv'
    OBVIOUS
  <1> None \notin Users
    BY SettingsAssumption
  <1>0. TypeOK /\ ui \in UIs /\ ThreadOfUI /\ ThreadsOfTiles /\ ApprovalUsedOnce
    BY DEF CredentialInv, TypeOK, UIs
  <1>1. CASE GetCredentialCount
    <2>1. /\ UNCHANGED <<setting, tiles, thread, serialization, spent, excused>>
          /\ provider' \in [cpus : Scenarios, recreate : BOOLEAN, events : BOOLEAN]
          /\ changed' \in BOOLEAN /\ retryShown' \subseteq Users
          /\ ui.at = "idle"
      BY <1>1, <1>0 DEF GetCredentialCount, ListTiles, TypeOK
    <2>2. /\ ui' \in UIs
          /\ \/ ui'.at = "release" /\ ui'.then = "list" /\ selected' = None
             \/ ui'.at \in {"idle", "logon"} /\ ui'.then = "none" /\ selected' = selected
      <3>1. CASE provider.recreate
      BY <1>1, <3>1 DEF GetCredentialCount, UIs
    <3>2. CASE ~provider.recreate
      BY <1>1, <3>2, <1>0 DEF GetCredentialCount, ListTiles, Idle, UIs
    <3> QED
      BY <3>1, <3>2
    <2>3. TypeOK'
      BY <1>1, <1>0, <2>1, <2>2 DEF TypeOK, UIs
    <2>4. ThreadOfUI'
      BY <1>1, <1>0, <2>1, <2>2 DEF ThreadOfUI, TypeOK, UIs, Ending
    <2>5. ThreadsOfTiles'
      BY <1>1, <1>0, <2>1, <2>2 DEF ThreadsOfTiles, ThreadOfUI, TypeOK, UIs, Alive, Ending
    <2>6. ApprovalUsedOnce'
      BY <1>1, <1>0, <2>1, <2>2 DEF ApprovalUsedOnce, IsUnlockSuccess, TypeOK
    <2> QED
      BY <2>3, <2>4, <2>5, <2>6 DEF CredentialInv
  <1>2. CASE CreateTiles
    <2>1. /\ selected = None /\ \A v \in Users : ~Alive(v)
      BY <1>2, <1>0 DEF CreateTiles, ThreadOfUI, ThreadsOfTiles, Ending
    <2>2. /\ tiles' \in [Users -> Tiles]
          /\ \A v \in Users : tiles'[v].result = "UNKNOWN"
      <3> DEFINE listed == [v \in Users |-> GetDevicesForUser(v) # {}]
    <3>1. /\ listed \in [Users -> BOOLEAN]
          /\ \A v \in Users : tiles'[v] = NewTile(listed[v], provider.cpus)
      BY <1>2 DEF CreateTiles
    <3>2. tiles' = [v \in Users |-> tiles'[v]] /\ provider.cpus \in Scenarios
      BY <1>2, <1>0 DEF CreateTiles, TypeOK
    <3> HIDE DEF listed
    <3>3. \A v \in Users : tiles'[v] \in Tiles /\ tiles'[v].result = "UNKNOWN"
      BY <3>1, <3>2, NewTileTyped
    <3> QED
      BY <3>2, <3>3
    <2>3. ui' \in UIs /\ ui'.at = "idle" /\ ui'.user = None /\ ui'.then = "none"
      BY <1>2 DEF CreateTiles, Idle, UIs
    <2>4. UNCHANGED <<setting, provider, thread, selected, changed, retryShown,
                       serialization, spent, excused>>
      BY <1>2 DEF CreateTiles
    <2>5. TypeOK'
      BY <1>0, <2>1, <2>2, <2>3, <2>4 DEF TypeOK, UIs
    <2>6. ThreadOfUI'
      BY <1>0, <2>1, <2>2, <2>3, <2>4 DEF ThreadOfUI, TypeOK, UIs, Ending
    <2>7. ThreadsOfTiles'
      BY <1>0, <2>1, <2>2, <2>3, <2>4
      DEF ThreadsOfTiles, ThreadOfUI, TypeOK, UIs, Alive, Ending
    <2>8. ApprovalUsedOnce'
      BY <1>0, <2>1, <2>2, <2>3, <2>4 DEF ApprovalUsedOnce, IsUnlockSuccess, TypeOK
    <2> QED
      BY <2>5, <2>6, <2>7, <2>8 DEF CredentialInv
  <1>3. CASE UnAdvise
    BY <1>3, <1>0
    DEF UnAdvise, CredentialInv, TypeOK, ThreadOfUI,
        ThreadsOfTiles, ApprovalUsedOnce, Alive, IsUnlockSuccess, Ending
  <1>4. CASE ProviderDeleted
    BY <1>4, <1>0
    DEF ProviderDeleted, CredentialInv, TypeOK, ThreadOfUI,
        ThreadsOfTiles, ApprovalUsedOnce, Alive, IsUnlockSuccess, Ending
  <1>5. CASE CreateInstance
    BY <1>5, <1>0, NewProviderKeeps DEF CreateInstance
  <1>6. ASSUME NEW cpus \in Scenarios \cup {"CHANGE_PASSWORD"}, SetUsageScenario(cpus)
        PROVE  CredentialInv'
    BY <1>6, <1>0
    DEF SetUsageScenario, Supported, CredentialInv, TypeOK, ThreadOfUI,
        ThreadsOfTiles, ApprovalUsedOnce, Alive, IsUnlockSuccess, Ending
  <1>7. ASSUME NEW u \in Users
        PROVE  (Work(u) => CredentialInv') /\ (Report(u) => CredentialInv')
               /\ (UserAsks(u) => CredentialInv')
    <2>1. CASE ReleaseTile(u)
      <3>1. TilesAlike
        BY <2>1, <1>0, TileStopped DEF ReleaseTile
      <3>2. ui' \in UIs /\ ui'.at = "join" /\ ui'.user = u /\ ui'.then = ui.then
        BY <2>1, <1>0 DEF ReleaseTile, Stop, UIs
      <3>3. TypeOK'
        BY <2>1, <1>0, <3>1, <3>2 DEF ReleaseTile, TypeOK, UIs, TilesAlike
      <3>4. ThreadOfUI'
        BY <2>1, <1>0, <3>1, <3>2
        DEF ReleaseTile, ThreadOfUI, TypeOK, UIs, Ending, TilesAlike
      <3>5. ThreadsOfTiles'
        BY <2>1, <1>0, <3>1, <3>2
        DEF ReleaseTile, ThreadsOfTiles, ThreadOfUI, TypeOK, UIs, Alive, Ending, TilesAlike
      <3>6. ApprovalUsedOnce'
        BY <2>1, <1>0, <3>1, <3>2
        DEF ReleaseTile, ApprovalUsedOnce, IsUnlockSuccess, TypeOK, TilesAlike
      <3> QED
        BY <3>3, <3>4, <3>5, <3>6 DEF CredentialInv
    <2>2. CASE RetryStop(u)
      <3>1. TilesAlike
        BY <2>2, <1>0, TileStopped DEF RetryStop
      <3>2. ui' \in UIs /\ ui'.at = "join" /\ ui'.user = u /\ ui'.then = "retry"
        BY <2>2, <1>0 DEF RetryStop, Stop, UIs
      <3>3. TypeOK'
        BY <2>2, <1>0, <3>1, <3>2 DEF RetryStop, TypeOK, UIs, TilesAlike
      <3>4. ThreadOfUI'
        BY <2>2, <1>0, <3>1, <3>2 DEF RetryStop, ThreadOfUI, TypeOK, UIs, Ending, TilesAlike
      <3>5. ThreadsOfTiles'
        BY <2>2, <1>0, <3>1, <3>2
        DEF RetryStop, ThreadsOfTiles, ThreadOfUI, TypeOK, UIs, Alive, Ending, TilesAlike
      <3>6. ApprovalUsedOnce'
        BY <2>2, <1>0, <3>1, <3>2
        DEF RetryStop, ApprovalUsedOnce, IsUnlockSuccess, TypeOK, TilesAlike
      <3> QED
        BY <3>3, <3>4, <3>5, <3>6 DEF CredentialInv
    <2>3. CASE Joined(u)
      <3>0. ui.at = "join" /\ ui.user = u /\ ~Alive(u)
           /\ UNCHANGED <<setting, provider, selected, serialization>>
        BY <2>3 DEF Joined
      <3>1. CASE ui.then = "deselected"
        <4>1. /\ tiles' = [tiles EXCEPT ![u].password = FALSE]
              /\ thread' = [thread EXCEPT ![u] = "none"]
              /\ ui' = Idle
              /\ UNCHANGED <<changed, retryShown, spent, excused>>
          BY <2>3, <3>1 DEF Joined
        <4>2. thread' \in [Users -> ThreadPcs]
          BY <4>1, <1>0 DEF TypeOK, ThreadPcs
        <4>3. TilesAlike
          BY <4>1, <1>0, TilePassword
        <4>4. ui' \in UIs /\ ui'.at = "idle" /\ ui'.user = None /\ ui'.then = "none"
          BY <4>1 DEF Idle, UIs
        <4>5. TypeOK'
          BY <3>0, <3>1, <1>0, <4>1, <4>2, <4>3, <4>4 DEF TypeOK, UIs, TilesAlike
        <4>6. ThreadOfUI'
          BY <3>0, <3>1, <1>0, <4>1, <4>2, <4>3, <4>4
          DEF ThreadOfUI, TypeOK, UIs, Ending, TilesAlike
        <4>7. ThreadsOfTiles'
          BY <3>0, <3>1, <1>0, <4>1, <4>2, <4>3, <4>4
          DEF ThreadsOfTiles, ThreadOfUI, TypeOK, UIs, Alive, Ending, TilesAlike
        <4>8. ApprovalUsedOnce'
          BY <3>0, <3>1, <1>0, <4>1, <4>2, <4>3, <4>4
          DEF ApprovalUsedOnce, IsUnlockSuccess, TypeOK, TilesAlike
        <4> QED
          BY <4>5, <4>6, <4>7, <4>8 DEF CredentialInv
      <3>2. CASE ui.then = "retry"
        <4>1. Start(u, TRUE) /\ ui' = Idle /\ UpdateCredsStatus /\ UNCHANGED <<retryShown, spent>>
          BY <2>3, <3>2 DEF Joined
        <4>2. /\ TilesAlike /\ thread' \in [Users -> ThreadPcs] /\ excused' \subseteq Users
              /\ \A v \in Users \ {u} : thread'[v] = thread[v]
          BY <4>1, <1>0, TileStarted
        <4>3. u = selected /\ changed' \in BOOLEAN
          BY <4>1, <3>0, <3>2, <1>0 DEF ThreadOfUI, UpdateCredsStatus, TypeOK
        <4>4. ui' \in UIs /\ ui'.at = "idle" /\ ui'.user = None /\ ui'.then = "none"
          BY <4>1 DEF Idle, UIs
        <4>5. TypeOK'
          BY <3>0, <3>2, <1>0, <4>1, <4>2, <4>3, <4>4 DEF TypeOK, UIs, TilesAlike
        <4>6. ThreadOfUI'
          BY <3>0, <3>2, <1>0, <4>1, <4>2, <4>3, <4>4
          DEF ThreadOfUI, TypeOK, UIs, Ending, TilesAlike
        <4>7. ThreadsOfTiles'
          BY <3>0, <3>2, <1>0, <4>1, <4>2, <4>3, <4>4
          DEF ThreadsOfTiles, ThreadOfUI, TypeOK, UIs, Alive, Ending, TilesAlike
        <4>8. ApprovalUsedOnce'
          BY <3>0, <3>2, <1>0, <4>1, <4>2, <4>3, <4>4
          DEF ApprovalUsedOnce, IsUnlockSuccess, TypeOK, TilesAlike
        <4> QED
          BY <4>5, <4>6, <4>7, <4>8 DEF CredentialInv
      <3>3. CASE ui.then \in Ending
        <4>1. /\ tiles' = [tiles EXCEPT ![u] = NewTile(FALSE, provider.cpus)]
              /\ thread' = [thread EXCEPT ![u] = "none"]
              /\ ui' = [ui EXCEPT !.at = "release", !.user = None]
              /\ retryShown' = retryShown \ {u}
              /\ spent' = spent \ {u} /\ excused' = excused \ {u}
              /\ UNCHANGED changed
          BY <2>3, <3>3 DEF Joined, Ending
        <4>2. /\ tiles' \in [Users -> Tiles] /\ tiles'[u].result = "UNKNOWN"
              /\ \A v \in Users \ {u} : tiles'[v] = tiles[v]
          BY <4>1, <1>0, NewTileTyped DEF TypeOK
        <4>3. /\ thread' \in [Users -> ThreadPcs] /\ ~Alive(u)'
              /\ \A v \in Users \ {u} : thread'[v] = thread[v]
          BY <4>1, <1>0 DEF TypeOK, ThreadPcs, Alive
        <4>4. ui' \in UIs /\ ui'.at = "release" /\ ui'.user = None /\ ui'.then = ui.then
          BY <4>1, <1>0 DEF UIs
        <4>5. TypeOK'
          BY <3>0, <3>3, <1>0, <4>1, <4>2, <4>3, <4>4 DEF TypeOK, UIs
        <4>6. ThreadOfUI'
          BY <3>0, <3>3, <1>0, <4>1, <4>2, <4>3, <4>4 DEF ThreadOfUI, TypeOK, UIs, Ending
        <4>7. ThreadsOfTiles'
          BY <3>0, <3>3, <1>0, <4>1, <4>2, <4>3, <4>4
          DEF ThreadsOfTiles, ThreadOfUI, TypeOK, UIs, Alive, Ending
        <4>8. ApprovalUsedOnce'
          BY <3>0, <3>3, <1>0, <4>1, <4>2, <4>3, <4>4
          DEF ApprovalUsedOnce, IsUnlockSuccess, TypeOK
        <4> QED
          BY <4>5, <4>6, <4>7, <4>8 DEF CredentialInv
      <3> QED
        BY <3>0, <1>0, <3>1, <3>2, <3>3 DEF ThreadOfUI, UIs, Ending
    <2>4. CASE GetSerialization(u)
      <3>1. /\ UNCHANGED <<setting, provider, thread, selected, changed, retryShown>>
            /\ ui.at \in {"idle", "logon"}
        BY <2>4 DEF GetSerialization
      <3>2. \/ UNCHANGED <<tiles, spent, excused>>
            \/ /\ tiles' = [tiles EXCEPT ![u].result = "UNKNOWN"]
               /\ spent' = spent \cup {u} /\ excused' = excused \cup {u}
        BY <2>4 DEF GetSerialization, Take
      <3>3. \/ tiles' = tiles /\ spent' = spent
            \/ spent' = spent \cup {u} /\ ~IsUnlockSuccess(u)'
        BY <3>2, <1>0, TileStored DEF Outcomes, IsUnlockSuccess
      <3>4. /\ tiles' \in [Users -> Tiles]
            /\ \A v \in Users : /\ tiles'[v].listed = tiles[v].listed
                               /\ tiles'[v].result \in {"UNKNOWN", tiles[v].result}
        BY <3>2, <1>0, TileStored DEF Outcomes, TypeOK
      <3>5. PICK s : /\ s.finished \in BOOLEAN
                     /\ serialization' = s
                     /\ ui' = IF s.finished THEN [at |-> "submitted", user |-> u, then |-> "none"]
                                            ELSE Idle
        <4> DEFINE packed == Serializations(u \in setting.local, setting.names[u],
                                            setting.password, tiles[u].cpus)
            Return(s) ==
               /\ serialization' = s
               /\ ui' = IF s.finished THEN [at |-> "submitted", user |-> u, then |-> "none"]
                                      ELSE Idle
        <4>1. Return(NotFinished) \/ \E s \in packed : Return(s)
          BY <2>4 DEF GetSerialization
        <4>2. \A s \in packed : s.finished \in BOOLEAN
          BY SerializationsTyped
        <4>3. NotFinished.finished \in BOOLEAN
          BY DEF NotFinished
        <4> HIDE DEF packed
        <4> QED
          BY <4>1, <4>2, <4>3
      <3>6. ui' \in UIs /\ ui'.at \in {"idle", "submitted"} /\ ui'.then = "none"
        BY <3>5 DEF Idle, UIs
      <3>7. TypeOK'
        BY <1>0, <3>1, <3>2, <3>3, <3>4, <3>5, <3>6 DEF TypeOK, UIs
      <3>8. ThreadOfUI'
        BY <1>0, <3>1, <3>2, <3>3, <3>4, <3>5, <3>6 DEF ThreadOfUI, TypeOK, UIs, Ending
      <3>9. ThreadsOfTiles'
        BY <1>0, <3>1, <3>2, <3>3, <3>4, <3>5, <3>6
        DEF ThreadsOfTiles, ThreadOfUI, TypeOK, UIs, Alive, Ending
      <3>10. ApprovalUsedOnce'
        BY <1>0, <3>1, <3>2, <3>3, <3>4, <3>5, <3>6
        DEF ApprovalUsedOnce, IsUnlockSuccess, TypeOK
      <3> QED
        BY <3>7, <3>8, <3>9, <3>10 DEF CredentialInv
    <2>5. ASSUME NEW success \in BOOLEAN, ReportResult(u, success)
          PROVE  CredentialInv'
      <3>1. /\ tiles' \in [Users -> Tiles]
            /\ \A v \in Users : /\ tiles'[v].listed = tiles[v].listed
                               /\ tiles'[v].result \in {"UNKNOWN", tiles[v].result}
        BY <2>5, <1>0, TileStored DEF ReportResult, Outcomes, TypeOK
      <3>2. /\ ui' \in UIs
            /\ \/ selected' = None /\ ui'.at = "release" /\ ui'.then = "gone"
               \/ selected' = selected /\ ui'.at = "idle" /\ ui'.then = "none"
        BY <2>5 DEF ReportResult, Idle, UIs
      <3>3. /\ ui.at = "submitted" /\ serialization' = NotFinished /\ excused' \subseteq Users
            /\ UNCHANGED <<setting, thread, changed, retryShown, spent>>
        BY <2>5, <1>0 DEF ReportResult, TypeOK
      <3>4. provider' \in [cpus : Scenarios, recreate : BOOLEAN, events : BOOLEAN]
        <4>1. provider' = provider \/ provider' = [provider EXCEPT !.events = FALSE]
          BY <2>5 DEF ReportResult
        <4> QED
          BY <4>1, <1>0 DEF TypeOK
      <3>5. TypeOK'
        BY <2>5, <1>0, <3>1, <3>2, <3>3, <3>4 DEF NotFinished, TypeOK, UIs
      <3>6. ThreadOfUI'
        BY <2>5, <1>0, <3>1, <3>2, <3>3, <3>4
        DEF NotFinished, ThreadOfUI, TypeOK, UIs, Ending
      <3>7. ThreadsOfTiles'
        BY <2>5, <1>0, <3>1, <3>2, <3>3, <3>4
        DEF NotFinished, ThreadsOfTiles, ThreadOfUI, TypeOK, UIs, Alive, Ending
      <3>8. ApprovalUsedOnce'
        BY <2>5, <1>0, <3>1, <3>2, <3>3, <3>4
        DEF NotFinished, ApprovalUsedOnce, IsUnlockSuccess, TypeOK
      <3> QED
        BY <3>5, <3>6, <3>7, <3>8 DEF CredentialInv
    <2>6. CASE SetSelected(u)
      <3>1. /\ ui.at = "idle" /\ tiles[u].listed /\ selected \in {None, u} /\ selected' = u
            /\ Start(u, FALSE)
            /\ UNCHANGED <<setting, provider, changed, retryShown, serialization, spent>>
        BY <2>6 DEF SetSelected
      <3>2. /\ TilesAlike /\ thread' \in [Users -> ThreadPcs] /\ excused' \subseteq Users
            /\ \A v \in Users \ {u} : thread'[v] = thread[v]
        BY <3>1, <1>0, TileStarted
      <3>3. ui' \in UIs /\ ui'.at \in {"idle", "logon"} /\ ui'.then \notin Ending
        BY <2>6, <1>0 DEF SetSelected, ThreadOfUI, UIs, Ending
      <3>4. TypeOK'
        BY <1>0, <3>1, <3>2, <3>3 DEF TypeOK, UIs, TilesAlike
      <3>5. ThreadOfUI'
        BY <1>0, <3>1, <3>2, <3>3 DEF ThreadOfUI, TypeOK, UIs, Ending, TilesAlike
      <3>6. ThreadsOfTiles'
        BY <1>0, <3>1, <3>2, <3>3
        DEF ThreadsOfTiles, ThreadOfUI, TypeOK, UIs, Alive, Ending, TilesAlike
      <3>7. ApprovalUsedOnce'
        BY <1>0, <3>1, <3>2, <3>3 DEF ApprovalUsedOnce, IsUnlockSuccess, TypeOK, TilesAlike
      <3> QED
        BY <3>4, <3>5, <3>6, <3>7 DEF CredentialInv
    <2>7. CASE SetDeselected(u)
      <3>1. TilesAlike
        BY <2>7, <1>0, TileStopped DEF SetDeselected
      <3>2. ui' \in UIs /\ ui'.at = "join" /\ ui'.user = u /\ ui'.then = "deselected"
        BY <2>7 DEF SetDeselected, Stop, UIs
      <3>3. TypeOK'
        BY <2>7, <1>0, <3>1, <3>2 DEF SetDeselected, TypeOK, UIs, TilesAlike
      <3>4. ThreadOfUI'
        BY <2>7, <1>0, <3>1, <3>2
        DEF SetDeselected, ThreadOfUI, TypeOK, UIs, Ending, TilesAlike
      <3>5. ThreadsOfTiles'
        BY <2>7, <1>0, <3>1, <3>2
        DEF SetDeselected, ThreadsOfTiles, ThreadOfUI, TypeOK, UIs, Alive, Ending, TilesAlike
      <3>6. ApprovalUsedOnce'
        BY <2>7, <1>0, <3>1, <3>2
        DEF SetDeselected, ApprovalUsedOnce, IsUnlockSuccess, TypeOK, TilesAlike
      <3> QED
        BY <3>3, <3>4, <3>5, <3>6 DEF CredentialInv
    <2>8. CASE CommandLinkClicked(u)
      <3>1. /\ tiles' \in [Users -> Tiles]
            /\ \A v \in Users : /\ tiles'[v].listed = tiles[v].listed
                               /\ tiles'[v].result \in {"UNKNOWN", tiles[v].result}
        BY <2>8, <1>0, TileStored DEF CommandLinkClicked, Outcomes, TypeOK
      <3>2. ui' \in UIs /\ ui'.at = "retry" /\ ui'.user = u /\ ui'.then = "none"
        BY <2>8 DEF CommandLinkClicked, UIs
      <3>3. TypeOK'
        BY <2>8, <1>0, <3>1, <3>2 DEF CommandLinkClicked, TypeOK, UIs
      <3>4. ThreadOfUI'
        BY <2>8, <1>0, <3>1, <3>2 DEF CommandLinkClicked, ThreadOfUI, TypeOK, UIs, Ending
      <3>5. ThreadsOfTiles'
        BY <2>8, <1>0, <3>1, <3>2
        DEF CommandLinkClicked, ThreadsOfTiles, ThreadOfUI, TypeOK, UIs, Alive, Ending
      <3>6. ApprovalUsedOnce'
        BY <2>8, <1>0, <3>1, <3>2
        DEF CommandLinkClicked, ApprovalUsedOnce, IsUnlockSuccess, TypeOK
      <3> QED
        BY <3>3, <3>4, <3>5, <3>6 DEF CredentialInv
    <2>9. ASSUME NEW typed \in BOOLEAN, SetStringValue(u, typed)
          PROVE  CredentialInv'
      <3>1. TilesAlike
        BY <2>9, <1>0, TilePassword DEF SetStringValue
      <3>2. TypeOK'
        BY <2>9, <1>0, <3>1 DEF SetStringValue, TypeOK, UIs, TilesAlike
      <3>3. ThreadOfUI'
        BY <2>9, <1>0, <3>1 DEF SetStringValue, ThreadOfUI, TypeOK, UIs, Ending, TilesAlike
      <3>4. ThreadsOfTiles'
        BY <2>9, <1>0, <3>1
        DEF SetStringValue, ThreadsOfTiles, ThreadOfUI, TypeOK, UIs, Alive, Ending, TilesAlike
      <3>5. ApprovalUsedOnce'
        BY <2>9, <1>0, <3>1
        DEF SetStringValue, ApprovalUsedOnce, IsUnlockSuccess, TypeOK, TilesAlike
      <3> QED
        BY <3>2, <3>3, <3>4, <3>5 DEF CredentialInv
    <2> QED
      BY <2>1, <2>2, <2>3, <2>4, <2>5, <2>6, <2>7, <2>8, <2>9 DEF Work, Report, UserAsks
  <1>8. ASSUME NEW u \in Users
        PROVE  /\ Listen(u) => CredentialInv'
               /\ ListenNetwork(u) => CredentialInv'
               /\ ListenAbort(u) => CredentialInv'
               /\ ListenWoken(u) => CredentialInv'
               /\ ListenApproved(u) => CredentialInv'
               /\ ListenFailed(u) => CredentialInv'
               /\ ListenHangs(u) => CredentialInv'
               /\ ListenCrash(u) => CredentialInv'
    <2>1. ASSUME NEW from \in ThreadPcs \ {"none", "ended"}, NEW to \in ThreadPcs,
                 ThreadStep(u, from, to), UNCHANGED tiles,
                 changed' \in BOOLEAN, excused' \subseteq Users
          PROVE  CredentialInv'
      <3>1. Alive(u)
        BY <2>1 DEF ThreadStep, Alive
      <3> QED
        BY <2>1, <3>1, ListenStepKeeps
    <2>2. ASSUME NEW result \in Outcomes, SetUnlockData(u, result)
          PROVE  CredentialInv'
      <3>1. Alive(u)
        BY <2>2 DEF SetUnlockData, Alive
      <3>2. tiles[u].listed /\ thread' \in [Users -> ThreadPcs]
        BY <2>2, <3>1, <1>0 DEF SetUnlockData, ThreadsOfTiles, TypeOK, ThreadPcs
      <3>3. /\ tiles' \in [Users -> Tiles]
            /\ \A v \in Users : tiles'[v].listed = tiles[v].listed
            /\ \A v \in Users \ {u} : tiles'[v].result = tiles[v].result
        BY <2>2, <1>0, TileStored DEF SetUnlockData
      <3>4. TypeOK'
        BY <2>2, <1>0, <3>2, <3>3 DEF SetUnlockData, TypeOK
      <3>5. ThreadOfUI'
        BY <2>2, <1>0, <3>3 DEF SetUnlockData, ThreadOfUI, TypeOK
      <3>6. ThreadsOfTiles'
        BY <2>2, <1>0, <3>1, <3>3 DEF SetUnlockData, ThreadsOfTiles, Alive, TypeOK
      <3>7. ApprovalUsedOnce'
        BY <2>2, <1>0, <3>2, <3>3 DEF SetUnlockData, ApprovalUsedOnce, IsUnlockSuccess
      <3> QED
        BY <3>4, <3>5, <3>6, <3>7 DEF CredentialInv
    <2>3. changed \in BOOLEAN /\ excused \cup {u} \subseteq Users /\ provider.events \in BOOLEAN
      BY <1>0 DEF TypeOK
    <2>4. CASE ListenInvalid(u)
      BY <2>1, <2>3, <2>4, <1>0 DEF ListenInvalid, ThreadPcs
    <2>5. CASE ListenInit(u)
      <3>1. PICK to \in ThreadPcs : ThreadStep(u, "init", to)
        BY <2>5 DEF ListenInit, ThreadPcs
      <3> QED
        BY <2>1, <2>3, <2>5, <3>1 DEF ListenInit, ThreadPcs
    <2>6. CASE ListenNetwork(u)
      BY <2>1, <2>3, <2>6 DEF ListenNetwork, ThreadPcs
    <2>7. CASE ListenAbort(u)
      BY <2>1, <2>3, <2>7 DEF ListenAbort, ThreadPcs
    <2>8. CASE ListenBehavior(u)
      <3>1. PICK to \in ThreadPcs : ThreadStep(u, "behavior", to)
        BY <2>8 DEF ListenBehavior, ThreadPcs
      <3> QED
        BY <2>1, <2>3, <2>8, <3>1 DEF ListenBehavior, ThreadPcs
    <2>9. CASE ListenWoken(u)
      BY <2>1, <2>3, <2>9 DEF ListenWoken, ThreadPcs
    <2>10. CASE ListenStopped(u)
      BY <2>1, <2>3, <2>10 DEF ListenStopped, ThreadPcs
    <2>11. CASE ListenApproved(u) \/ ListenFailed(u)
      BY <2>2, <2>11 DEF ListenApproved, ListenFailed, Outcomes
    <2>12. CASE ListenNotify(u)
      BY <2>1, <2>3, <2>12 DEF ListenNotify, ThreadPcs
    <2>13. CASE ListenCall(u)
      BY <2>1, <2>3, <2>13 DEF ListenCall, UpdateCredsStatus, ThreadPcs
    <2>15. CASE ListenHangs(u)
      BY <2>1, <2>3, <2>15 DEF ListenHangs, ThreadPcs
    <2>14. CASE ListenCrash(u)
      BY <2>14, <1>0, NewProviderKeeps DEF ListenCrash
    <2> QED
      BY <2>4, <2>5, <2>6, <2>7, <2>8, <2>9, <2>10, <2>11, <2>12, <2>13, <2>14, <2>15
      DEF Listen, GetResultStopped
  <1>9. CASE UNCHANGED vars
    BY <1>9 DEF vars, CredentialInv, TypeOK, ThreadOfUI, ThreadsOfTiles, ApprovalUsedOnce,
                Alive, IsUnlockSuccess
  <1> QED
    BY <1>1, <1>2, <1>3, <1>4, <1>5, <1>6, <1>7, <1>8, <1>9 DEF Next

\* Nothing the provider's code does leaves the types its members have.
THEOREM CredentialTypeOK == Spec => []TypeOK
  <1>1. CredentialInv => TypeOK
    BY DEF CredentialInv
  <1> QED
    BY CredentialInvInit, CredentialInvStep, <1>1, PTL DEF Spec

\* The result of a tile logs on once (GetSerialization clears it), and no result
\* outlives the tile or the provider that asked for it.
THEOREM CredentialUsesApprovalOnce == Spec => []ApprovalUsedOnce
  <1>1. CredentialInv => ApprovalUsedOnce
    BY DEF CredentialInv
  <1> QED
    BY CredentialInvInit, CredentialInvStep, <1>1, PTL DEF Spec

\* The joins of SetDeselected, Retry and the destructor leave no attempt behind.
THEOREM CredentialOneAttempt == Spec => []OneAttempt
  <1>1. CredentialInv => OneAttempt
    BY DEF CredentialInv, ThreadsOfTiles, OneAttempt, Ending
  <1> QED
    BY CredentialInvInit, CredentialInvStep, <1>1, PTL DEF Spec
-----------------------------------------------------------------------------
\* What is packed for Windows

\* A string that fits keeps its length in the 16 bits of a UNICODE_STRING.
LEMMA FittingString ==
    ASSUME NEW chars \in Nat, FitsUnicodeString(chars)
    PROVE  UnicodeStringInitWithString(chars) = [Length |-> WcharSize * chars]
  <1>1. chars * 2 \in Nat /\ chars * 2 <= 65535
    BY DEF FitsUnicodeString, WcharSize, UShortMax
  <1>2. (chars * WcharSize) % (UShortMax + 1) = WcharSize * chars
    BY <1>1 DEF WcharSize, UShortMax
  <1> QED
    BY <1>2 DEF UnicodeStringInitWithString

LEMMA PackLocalWhole ==
    ASSUME NEW name \in [sep : BOOLEAN, domain : Nat, user : Nat],
           NEW chars \in Nat, NEW cpus, NEW s \in PackLocal(name, chars, cpus)
    PROVE  LET userAt == Header + WcharSize * name.domain
               passwordAt == userAt + WcharSize * name.user
           IN  /\ s.finished
               /\ Whole(s.domain, name.domain, Header)
               /\ Whole(s.user, name.user, userAt)
               /\ \E copied \in {chars, chars + Growth} :
                      /\ Whole(s.password, copied, passwordAt)
                      /\ s.cb = passwordAt + WcharSize * copied
  <1> DEFINE Inits == {KerbInteractiveUnlockLogonInit(split.domain, split.user,
                           ProtectIfNecessaryAndCopyPassword(chars, cpus, protected), cpus) :
                       split \in SplitDomainAndUsername(name), protected \in BOOLEAN}
  <1>1. PackLocal(name, chars, cpus) =
            {KerbInteractiveUnlockLogonPack(kiul) : kiul \in UNION Inits}
    BY DEF PackLocal
  <1> HIDE DEF Inits
  <1>2. PICK inits, kiul :
          inits \in Inits /\ kiul \in inits /\ s = KerbInteractiveUnlockLogonPack(kiul)
    BY <1>1
  <1>3. PICK split \in SplitDomainAndUsername(name), protected \in BOOLEAN :
          inits = KerbInteractiveUnlockLogonInit(split.domain, split.user,
                      ProtectIfNecessaryAndCopyPassword(chars, cpus, protected), cpus)
    BY <1>2 DEF Inits
  <1>4. split.domain = name.domain /\ split.user = name.user
    BY DEF SplitDomainAndUsername
  <1>5. PICK copied \in {chars, chars + Growth} :
          kiul \in KerbInteractiveUnlockLogonInit(name.domain, name.user, copied, cpus)
    BY <1>2, <1>3, <1>4 DEF ProtectIfNecessaryAndCopyPassword
  <1>6. copied \in Nat /\ name.domain \in Nat /\ name.user \in Nat
    BY <1>5, PackingAssumption
  <1>7. /\ FitsUnicodeString(name.domain) /\ FitsUnicodeString(name.user)
        /\ FitsUnicodeString(copied)
        /\ kiul.domain = UnicodeStringInitWithString(name.domain)
        /\ kiul.user = UnicodeStringInitWithString(name.user)
        /\ kiul.password = UnicodeStringInitWithString(copied)
    BY <1>5 DEF KerbInteractiveUnlockLogonInit
  <1>8. /\ kiul.domain.Length = WcharSize * name.domain
        /\ kiul.user.Length = WcharSize * name.user
        /\ kiul.password.Length = WcharSize * copied
    BY <1>6, <1>7, FittingString
  <1>9. /\ s.finished
        /\ s.domain = PackedCopy(kiul.domain, Header)
        /\ s.user = PackedCopy(kiul.user, Header + kiul.domain.Length)
        /\ s.password = PackedCopy(kiul.password,
                            Header + kiul.domain.Length + kiul.user.Length)
        /\ s.cb = Header + kiul.domain.Length + kiul.user.Length + kiul.password.Length
    BY <1>2 DEF KerbInteractiveUnlockLogonPack
  <1> QED
    BY <1>5, <1>8, <1>9 DEF PackedCopy, Whole

\* While LogonUI logs a user on, the last serialization is the one that the user's
\* tile has packed for the password.
PackedForLogon ==
    ui.at = "submitted" =>
        /\ serialization.finished /\ ui.user \in Users
        /\ \E cpus \in Scenarios :
              serialization \in Serializations(ui.user \in setting.local,
                                   setting.names[ui.user], setting.password, cpus)

LEMMA PackedForLogonStep == CredentialInv /\ PackedForLogon /\ [Next]_vars => PackedForLogon'
  <1> SUFFICES ASSUME CredentialInv, PackedForLogon, [Next]_vars PROVE PackedForLogon'
    OBVIOUS
  <1>1. ASSUME NEW u \in Users, GetSerialization(u) PROVE PackedForLogon'
    <2> DEFINE packed == Serializations(u \in setting.local, setting.names[u],
                                        setting.password, tiles[u].cpus)
    <2>1. PICK t \in packed \cup {NotFinished} :
             /\ serialization' = t
             /\ ui' = IF t.finished THEN [at |-> "submitted", user |-> u, then |-> "none"]
                                    ELSE Idle
      BY <1>1 DEF GetSerialization
    <2>2. tiles[u].cpus \in Scenarios /\ setting' = setting
      BY <1>1 DEF CredentialInv, TypeOK, Tiles, GetSerialization
    <2>3. ~NotFinished.finished
      BY DEF NotFinished
    <2> HIDE DEF packed
    <2>4. ASSUME ui'.at = "submitted"
          PROVE  serialization'.finished /\ ui'.user = u /\ serialization' \in packed
      BY <2>1, <2>3, <2>4 DEF Idle
    <2> QED
      BY <2>2, <2>4 DEF PackedForLogon, packed
  <1>2. CASE ui'.at # "submitted"
    BY <1>2 DEF PackedForLogon
  <1>3. CASE UNCHANGED <<setting, serialization, ui>>
    BY <1>3 DEF PackedForLogon
  <1>4. \A u \in Users : ~GetSerialization(u) /\ (Work(u) \/ UserAsks(u) \/ Report(u)) =>
               UNCHANGED <<setting, serialization, ui>> \/ ui'.at # "submitted"
    <2> SUFFICES ASSUME NEW u \in Users, ~GetSerialization(u),
                        Work(u) \/ UserAsks(u) \/ Report(u)
                 PROVE  UNCHANGED <<setting, serialization, ui>> \/ ui'.at # "submitted"
      OBVIOUS
    <2>1. CASE ReleaseTile(u)
      BY <2>1 DEF ReleaseTile, Stop
    <2>2. CASE RetryStop(u)
      BY <2>2 DEF RetryStop, Stop
    <2>3. CASE Joined(u)
      <3>1. ui \in UIs
        BY DEF CredentialInv, TypeOK, UIs
      <3>2. ui' = Idle \/ ui' = [ui EXCEPT !.at = "release", !.user = None]
        BY <2>3, Zenon DEF Joined
      <3>3. [ui EXCEPT !.at = "release", !.user = None].at = "release"
        BY <3>1 DEF UIs
      <3>4. Idle.at = "idle"
        BY DEF Idle
      <3>5. ui'.at = "idle" \/ ui'.at = "release"
        BY <3>2, <3>3, <3>4, Zenon
      <3> QED
        BY <3>5
    <2>4. CASE SetSelected(u)
      BY <2>4 DEF SetSelected
    <2>5. CASE SetDeselected(u)
      BY <2>5 DEF SetDeselected, Stop
    <2>6. CASE CommandLinkClicked(u)
      BY <2>6 DEF CommandLinkClicked
    <2>7. CASE \E typed \in BOOLEAN : SetStringValue(u, typed)
      BY <2>7 DEF SetStringValue
    <2>8. CASE Report(u)
      BY <2>8 DEF Report, ReportResult, Idle
    <2> QED
      BY <2>1, <2>2, <2>3, <2>4, <2>5, <2>6, <2>7, <2>8 DEF Work, UserAsks
  <1>5. \A u \in Users :
           /\ Listen(u) => UNCHANGED <<setting, serialization, ui>>
           /\ ListenNetwork(u) \/ ListenAbort(u) \/ ListenWoken(u) \/ ListenHangs(u) =>
                  UNCHANGED <<setting, serialization, ui>>
           /\ ListenApproved(u) \/ ListenFailed(u) => UNCHANGED <<setting, serialization, ui>>
           /\ ListenCrash(u) => ui' = Idle
    BY DEF Listen, ListenInvalid, ListenInit, ListenBehavior, ListenStopped, ListenNotify,
           ListenCall, ListenNetwork, ListenAbort, ListenWoken, ListenApproved, ListenFailed,
           ListenCrash, ListenHangs, GetResultStopped, ThreadStep, SetUnlockData, NewProvider
  <1>6. ASSUME \/ GetCredentialCount \/ CreateTiles \/ UnAdvise \/ ProviderDeleted \/ CreateInstance
               \/ \E cpus \in Scenarios \cup {"CHANGE_PASSWORD"} : SetUsageScenario(cpus)
        PROVE  UNCHANGED <<setting, serialization, ui>> \/ ui'.at # "submitted"
    <2>1. CASE GetCredentialCount
      <3>1. \/ ui' = [at |-> "release", user |-> None, then |-> "list"] \/ ui' = Idle
            \/ \E u \in Users : ui' = [at |-> "logon", user |-> u, then |-> "none"]
        BY <2>1 DEF GetCredentialCount, ListTiles
      <3> QED
        BY <3>1 DEF Idle
    <2>2. CASE CreateTiles \/ CreateInstance
      <3>1. ui' = Idle
        BY <2>2 DEF CreateTiles, CreateInstance, NewProvider
      <3> QED
        BY <3>1 DEF Idle
    <2>3. CASE UnAdvise \/ ProviderDeleted
      BY <2>3 DEF UnAdvise, ProviderDeleted
    <2>4. CASE \E cpus \in Scenarios \cup {"CHANGE_PASSWORD"} : SetUsageScenario(cpus)
      BY <2>4 DEF SetUsageScenario
    <2> QED
      BY <1>6, <2>1, <2>2, <2>3, <2>4
  <1>7. \/ UNCHANGED <<setting, serialization, ui>> \/ ui'.at # "submitted"
        \/ \E u \in Users : GetSerialization(u)
    BY <1>4, <1>5, <1>6 DEF Next, vars, Idle
  <1> QED
    BY <1>1, <1>2, <1>3, <1>7

LEMMA PackedForLogonWhole == CredentialInv /\ PackedForLogon => HandedWhole
  <1> SUFFICES ASSUME CredentialInv, PackedForLogon,
                      ui.at = "submitted", ui.user \in setting.local
               PROVE  HandedWhole
    BY DEF HandedWhole
  <1>1. PICK cpus \in Scenarios :
          serialization \in Serializations(TRUE, setting.names[ui.user],
                                           setting.password, cpus)
    BY DEF PackedForLogon
  <1>2. /\ setting.password \in Nat
        /\ setting.names[ui.user] \in [sep : BOOLEAN, domain : Nat, user : Nat]
    BY SettingsAssumption DEF CredentialInv, TypeOK, PackedForLogon
  <1>3. serialization \in PackLocal(setting.names[ui.user], setting.password, cpus)
    BY <1>1 DEF Serializations, NotFinished, PackedForLogon
  <1> QED
    BY <1>2, <1>3, PackLocalWhole DEF HandedWhole

\* GetSerialization hands over a local user's domain, name and password as a whole,
\* though the byte counts of the packed strings have 16 bits and CredProtectW may have
\* lengthened the password: SizeTToUShort and UShortMult have refused what would not fit.
THEOREM CredentialHandedWhole == Spec => []HandedWhole
  <1>1. Init => PackedForLogon
    BY DEF Init, PackedForLogon, Idle
  <1> QED
    BY <1>1, CredentialInvInit, CredentialInvStep, PackedForLogonStep, PackedForLogonWhole, PTL
    DEF Spec
-----------------------------------------------------------------------------
\* Why the selected tile can be used

\* A listener runs for the selected tile, or until its tile is released; Retry has
\* stopped the one that it starts again, and a tile that is being left is not selected.
RunningSelected ==
    /\ \A u \in Users : tiles[u].running =>
           tiles[u].listed /\ (u = selected \/ ui.then \in Ending)
    /\ ui.at = "join" /\ ui.then = "retry" => ~tiles[ui.user].running
    /\ ui.at = "join" /\ ui.then = "deselected" => selected = None

\* Only the end of LogonUI takes the callback away, and then no tile is selected.
EventsUntilGone ==
    /\ ~provider.events => ui.then = "gone" \/ ui.at = "gone"
    /\ ui.at = "gone" => selected = None

\* A tile without a result has a thread to come with one, or is excused; a failure
\* shows Retry once the CredentialsChanged it has posted is handled.
SelectedUsable ==
    selected # None /\ ui.at \notin {"retry", "join"} =>
        /\ thread[selected] \in {"none", "notify", "call", "ended"}
              /\ tiles[selected].result = "UNKNOWN" => selected \in excused
        /\ ~Alive(selected) /\ tiles[selected].result = "FAILED" /\ ~changed =>
              selected \in retryShown \cup excused

UsableInv == RunningSelected /\ EventsUntilGone /\ SelectedUsable

LEMMA UsableInit == Init => UsableInv
  <1> SUFFICES ASSUME Init PROVE UsableInv
    OBVIOUS
  <1>1. PICK cpus \in Scenarios :
            /\ provider = [cpus |-> cpus, recreate |-> TRUE, events |-> TRUE]
            /\ tiles = [u \in Users |-> NewTile(FALSE, cpus)]
    BY DEF Init
  <1>2. \A u \in Users : ~tiles[u].running
    BY <1>1 DEF NewTile
  <1> QED
    BY <1>1, <1>2 DEF Init, Idle, UsableInv, RunningSelected, EventsUntilGone, SelectedUsable

LEMMA UsableNewProvider ==
    ASSUME NEW cpus \in Scenarios, NewProvider(cpus)
    PROVE  UsableInv'
  <1>1. \A u \in Users : ~tiles'[u].running
    BY DEF NewProvider, NewTile
  <1> QED
    BY <1>1 DEF NewProvider, Idle, UsableInv, RunningSelected, EventsUntilGone, SelectedUsable

\* What LogonUI's thread does with the provider.
LEMMA UsableProvider ==
    ASSUME CredentialInv, UsableInv,
           \/ GetCredentialCount \/ CreateTiles \/ UnAdvise \/ ProviderDeleted
           \/ \E cpus \in Scenarios \cup {"CHANGE_PASSWORD"} : SetUsageScenario(cpus)
    PROVE  UsableInv'
  <1> None \notin Users
    BY SettingsAssumption
  <1>0. TypeOK /\ ui \in UIs /\ ThreadOfUI
    BY DEF CredentialInv, TypeOK, UIs
  <1>1. CASE GetCredentialCount
    <2>1. CASE provider.recreate
      <3>1. /\ ui' = [at |-> "release", user |-> None, then |-> "list"] /\ selected' = None
            /\ provider'.events = provider.events /\ tiles' = tiles /\ ui.at = "idle"
        BY <1>0, <1>1, <2>1 DEF GetCredentialCount, TypeOK
      <3> QED
        BY <1>0, <3>1 DEF UsableInv, RunningSelected, EventsUntilGone, SelectedUsable,
                          ThreadOfUI, Ending
    <2>2. CASE ~provider.recreate
      <3>1. /\ UNCHANGED <<provider, selected, tiles, thread, excused>>
            /\ ui.at = "idle" /\ ui'.at \in {"idle", "logon"} /\ ui'.then = "none"
            /\ retryShown' = {u \in Users : HasRetry(u)} \cap {u \in Users : tiles[u].listed}
        BY <1>1, <2>2 DEF GetCredentialCount, ListTiles, Idle
      <3>2. selected # None /\ tiles[selected].result = "FAILED" => selected \in retryShown'
        BY <1>0, <3>1 DEF ThreadOfUI, TypeOK, HasRetry
      <3> QED
        BY <1>0, <3>1, <3>2 DEF UsableInv, RunningSelected, EventsUntilGone, SelectedUsable,
                                ThreadOfUI, Alive, Ending
    <2> QED
      BY <2>1, <2>2
  <1>2. CASE CreateTiles
    <2>1. \A u \in Users : ~tiles'[u].running
      BY <1>2 DEF CreateTiles, NewTile
    <2>2. selected = None
      BY <1>0, <1>2 DEF CreateTiles, ThreadOfUI, Ending
    <2> QED
      BY <1>2, <2>1, <2>2 DEF CreateTiles, Idle, UsableInv, RunningSelected, EventsUntilGone,
                              SelectedUsable
  <1>3. CASE UnAdvise
    BY <1>3 DEF UnAdvise, UsableInv, RunningSelected, EventsUntilGone, SelectedUsable, Ending
  <1>4. CASE ProviderDeleted
    <2>1. selected = None /\ \A u \in Users : ~tiles[u].running
      BY <1>0, <1>4 DEF ProviderDeleted, ThreadOfUI, Ending, UsableInv, RunningSelected
    <2> QED
      BY <1>4, <2>1 DEF ProviderDeleted, UsableInv, RunningSelected, EventsUntilGone,
                        SelectedUsable
  <1>5. ASSUME NEW cpus \in Scenarios \cup {"CHANGE_PASSWORD"}, SetUsageScenario(cpus)
        PROVE  UsableInv'
    <2>1. provider'.events = provider.events
      BY <1>0, <1>5 DEF SetUsageScenario, TypeOK
    <2> QED
      BY <1>5, <2>1 DEF SetUsageScenario, UsableInv, RunningSelected, EventsUntilGone,
                        SelectedUsable
  <1> QED
    BY <1>1, <1>2, <1>3, <1>4, <1>5

\* What it does with a tile.
LEMMA UsableTile ==
    ASSUME CredentialInv, UsableInv, NEW u \in Users, Work(u) \/ Report(u) \/ UserAsks(u)
    PROVE  UsableInv'
  <1> None \notin Users
    BY SettingsAssumption
  <1>0. TypeOK /\ ui \in UIs /\ ThreadOfUI /\ tiles \in [Users -> Tiles]
    BY DEF CredentialInv, TypeOK, UIs
  <1>1. CASE ReleaseTile(u)
    <2>1. TilesAlike /\ ~tiles'[u].running /\ \A v \in Users \ {u} : tiles'[v] = tiles[v]
      BY <1>1, <1>0, TileStopped DEF ReleaseTile
    <2>2. ui' = [at |-> "join", user |-> u, then |-> ui.then] /\ ui.then \in Ending
      BY <1>1, <1>0 DEF ReleaseTile, Stop, ThreadOfUI
    <2> QED
      BY <1>1, <1>0, <2>1, <2>2 DEF ReleaseTile, UsableInv, RunningSelected, EventsUntilGone,
            SelectedUsable, ThreadOfUI, Ending, TilesAlike
  <1>2. CASE RetryStop(u)
    <2>1. TilesAlike /\ ~tiles'[u].running /\ \A v \in Users \ {u} : tiles'[v] = tiles[v]
      BY <1>2, <1>0, TileStopped DEF RetryStop
    <2>2. ui' = [at |-> "join", user |-> u, then |-> "retry"] /\ ui.then \notin Ending
      BY <1>2, <1>0 DEF RetryStop, Stop, ThreadOfUI
    <2> QED
      BY <1>2, <1>0, <2>1, <2>2 DEF RetryStop, UsableInv, RunningSelected, EventsUntilGone,
            SelectedUsable, ThreadOfUI, Ending, TilesAlike
  <1>3. CASE Joined(u)
    <2>0. ui.at = "join" /\ ui.user = u /\ ~Alive(u) /\ UNCHANGED <<provider, selected>>
      BY <1>3 DEF Joined
    <2>1. CASE ui.then = "deselected"
      <3>1. /\ tiles' = [tiles EXCEPT ![u].password = FALSE]
            /\ thread' = [thread EXCEPT ![u] = "none"]
            /\ ui'.at = "idle" /\ ui'.then = "none"
            /\ UNCHANGED <<changed, retryShown, spent, excused>>
        BY <1>3, <2>1 DEF Joined, Idle
      <3>2. TilesAlike /\ \A v \in Users : tiles'[v].running = tiles[v].running
        <4>1. FALSE \in BOOLEAN
          OBVIOUS
        <4> QED
          BY <3>1, <4>1, <1>0, TilePassword
      <3>3. selected = None
        BY <2>0, <2>1 DEF UsableInv, RunningSelected
      <3>4. RunningSelected'
        BY <2>0, <2>1, <3>1, <3>2, <3>3 DEF UsableInv, RunningSelected, Ending, TilesAlike
      <3>5. EventsUntilGone' /\ SelectedUsable'
        BY <2>0, <2>1, <3>1, <3>3 DEF UsableInv, EventsUntilGone, SelectedUsable
      <3> QED
        BY <3>4, <3>5 DEF UsableInv
    <2>2. CASE ui.then = "retry"
      <3>0. Start(u, TRUE) /\ ui' = Idle
        BY <1>3, <2>2 DEF Joined
      <3>1. ui'.at = "idle" /\ ui'.then = "none"
        BY <3>0 DEF Idle
      <3>2. u = selected /\ ~tiles[u].running
        BY <1>0, <2>0, <2>2 DEF ThreadOfUI, UsableInv, RunningSelected
      <3>3. TilesAlike /\ (\A v \in Users \ {u} : tiles'[v] = tiles[v]) /\ thread'[u] = "init"
        BY <1>0, <3>0, <3>2, TileStarted
      <3> QED
        BY <1>0, <2>0, <2>2, <3>1, <3>2, <3>3 DEF UsableInv, RunningSelected, EventsUntilGone,
              Ending, SelectedUsable, ThreadOfUI, TilesAlike, Alive
    <2>3. CASE ui.then \in Ending
      <3>1. /\ tiles' = [tiles EXCEPT ![u] = NewTile(FALSE, provider.cpus)]
            /\ ui' = [ui EXCEPT !.at = "release", !.user = None]
        BY <1>3, <2>3 DEF Joined, Ending
      <3>2. ~tiles'[u].running /\ \A v \in Users \ {u} : tiles'[v] = tiles[v]
        BY <1>0, <3>1 DEF NewTile
      <3>3. ui'.at = "release" /\ ui'.then = ui.then /\ selected = None
        BY <1>0, <2>3, <3>1 DEF UIs, ThreadOfUI
      <3> QED
        BY <1>0, <2>0, <2>3, <3>2, <3>3 DEF UsableInv, RunningSelected, EventsUntilGone,
              Ending, SelectedUsable
    <2> QED
      BY <1>0, <2>0, <2>1, <2>2, <2>3 DEF ThreadOfUI, UIs, Ending
  <1>4. CASE GetSerialization(u)
    <2>1. /\ UNCHANGED <<provider, thread, selected, changed, retryShown>>
          /\ ui.at \in {"idle", "logon"} /\ ui'.at \in {"idle", "submitted"}
          /\ ui'.then = "none"
      BY <1>4 DEF GetSerialization, Idle
    <2>2. \/ UNCHANGED <<tiles, excused>>
          \/ tiles' = [tiles EXCEPT ![u].result = "UNKNOWN"] /\ excused' = excused \cup {u}
      BY <1>4 DEF GetSerialization, Take
    <2>3. /\ \A v \in Users : /\ tiles'[v].listed = tiles[v].listed
                             /\ tiles'[v].running = tiles[v].running
          /\ \A v \in Users : \/ tiles'[v].result = tiles[v].result
                              \/ tiles'[v].result = "UNKNOWN" /\ v \in excused'
          /\ excused \subseteq excused'
      BY <2>2, <1>0, TileStored DEF Outcomes
    <2>4. ui.then \notin Ending /\ selected \in Users \cup {None}
      BY <1>0, <2>1 DEF ThreadOfUI, TypeOK
    <2> QED
      BY <2>1, <2>3, <2>4 DEF UsableInv, RunningSelected, EventsUntilGone, SelectedUsable,
            Alive, Ending
  <1>5. ASSUME NEW success \in BOOLEAN, ReportResult(u, success)
        PROVE  UsableInv'
    <2>1. /\ ui.at = "submitted"
          /\ tiles' = [tiles EXCEPT ![u].result = "UNKNOWN"] /\ excused' = excused \cup {u}
          /\ UNCHANGED <<thread, changed, retryShown>>
          /\ \/ ui'.at = "idle" /\ ui'.then = "none" /\ UNCHANGED <<provider, selected>>
             \/ ui'.at = "release" /\ ui'.then = "gone" /\ selected' = None
      BY <1>5 DEF ReportResult, Idle
    <2>2. /\ \A v \in Users : /\ tiles'[v].listed = tiles[v].listed
                             /\ tiles'[v].running = tiles[v].running
          /\ \A v \in Users : \/ tiles'[v].result = tiles[v].result
                              \/ tiles'[v].result = "UNKNOWN" /\ v \in excused'
      BY <2>1, <1>0, TileStored DEF Outcomes
    <2>3. ui.then \notin Ending /\ selected \in Users \cup {None}
      BY <1>0, <2>1 DEF ThreadOfUI, TypeOK
    <2> QED
      BY <2>1, <2>2, <2>3 DEF UsableInv, RunningSelected, EventsUntilGone, SelectedUsable,
            Alive, Ending
  <1>6. CASE SetSelected(u)
    <2>1. /\ ui.at = "idle" /\ tiles[u].listed /\ selected \in {None, u} /\ selected' = u
          /\ Start(u, FALSE)
          /\ UNCHANGED <<provider, changed, retryShown>>
      BY <1>6 DEF SetSelected
    <2>2. ui.then \notin Ending
      BY <1>0, <2>1 DEF ThreadOfUI
    <2>3. ui'.at \in {"idle", "logon"} /\ ui'.then \notin Ending
      BY <1>6, <2>1, <2>2 DEF SetSelected, Ending
    <2>4. TilesAlike /\ (\A v \in Users \ {u} : tiles'[v] = tiles[v])
      BY <1>0, <2>1, TileStarted
    <2>5. CASE tiles[u].running
      <3>1. UNCHANGED <<tiles, thread, excused>> /\ selected = u
        BY <1>0, <2>1, <2>2, <2>5, TileStarted DEF UsableInv, RunningSelected
      <3> QED
        BY <2>1, <2>2, <2>3, <2>5, <3>1
        DEF UsableInv, RunningSelected, EventsUntilGone, SelectedUsable, Alive, Ending
    <2>6. CASE ~tiles[u].running
      <3>1. thread'[u] = "init"
        BY <1>0, <2>1, <2>6, TileStarted
      <3> QED
        BY <2>1, <2>2, <2>3, <2>4, <3>1
        DEF UsableInv, RunningSelected, EventsUntilGone, SelectedUsable, Alive, Ending,
            TilesAlike
    <2> QED
      BY <2>5, <2>6
  <1>7. CASE SetDeselected(u)
    <2>1. TilesAlike /\ ~tiles'[u].running /\ \A v \in Users \ {u} : tiles'[v] = tiles[v]
      BY <1>7, <1>0, TileStopped DEF SetDeselected
    <2>2. ui' = [at |-> "join", user |-> u, then |-> "deselected"] /\ ui.then \notin Ending
      BY <1>7, <1>0 DEF SetDeselected, Stop, ThreadOfUI
    <2> QED
      BY <1>7, <1>0, <2>1, <2>2 DEF SetDeselected, UsableInv, RunningSelected,
            EventsUntilGone, SelectedUsable, Ending, TilesAlike
  <1>8. CASE CommandLinkClicked(u)
    <2>1. /\ \A v \in Users : /\ tiles'[v].listed = tiles[v].listed
                             /\ tiles'[v].running = tiles[v].running
      BY <1>8, <1>0, TileStored DEF CommandLinkClicked, Outcomes
    <2>2. ui' = [at |-> "retry", user |-> u, then |-> "none"] /\ ui.then \notin Ending
      BY <1>8, <1>0 DEF CommandLinkClicked, ThreadOfUI
    <2> QED
      BY <1>8, <2>1, <2>2 DEF CommandLinkClicked, UsableInv, RunningSelected,
            EventsUntilGone, SelectedUsable, Ending
  <1>9. ASSUME NEW typed \in BOOLEAN, SetStringValue(u, typed)
        PROVE  UsableInv'
    <2>1. TilesAlike /\ \A v \in Users : tiles'[v].running = tiles[v].running
      BY <1>9, <1>0, TilePassword DEF SetStringValue
    <2> QED
      BY <1>9, <1>0, <2>1 DEF SetStringValue, UsableInv, RunningSelected, TypeOK,
            EventsUntilGone, SelectedUsable, Alive, TilesAlike
  <1> QED
    BY <1>1, <1>2, <1>3, <1>4, <1>5, <1>6, <1>7, <1>8, <1>9 DEF Work, Report, UserAsks

\* What a listen thread does.
LEMMA UsableListen ==
    ASSUME CredentialInv, UsableInv, NEW u \in Users,
           \/ Listen(u) \/ ListenNetwork(u) \/ ListenAbort(u) \/ ListenWoken(u)
           \/ ListenHangs(u) \/ ListenApproved(u) \/ ListenFailed(u)
    PROVE  UsableInv'
  <1>0. TypeOK /\ ThreadOfUI /\ tiles \in [Users -> Tiles] /\ thread \in [Users -> ThreadPcs]
    BY DEF CredentialInv, TypeOK
  <1>1. u = selected => provider.events
    BY <1>0, SettingsAssumption DEF UsableInv, EventsUntilGone, ThreadOfUI, Ending
  <1>2. ASSUME NEW from, NEW to, ThreadStep(u, from, to), UNCHANGED tiles,
               excused \subseteq excused', changed => changed',
               \/ u \in excused' \/ to \notin {"none", "notify", "call", "ended"}
               \/ /\ from \in {"notify", "call"} /\ to \in {"call", "ended"}
                  /\ u = selected /\ to = "ended" => changed'
        PROVE  UsableInv'
    <2>1. /\ \A v \in Users \ {u} : thread'[v] = thread[v]
          /\ thread[u] = from /\ thread'[u] = to
          /\ UNCHANGED <<provider, ui, selected, retryShown>>
      BY <1>0, <1>2 DEF ThreadStep
    <2>2. RunningSelected' /\ EventsUntilGone'
      BY <1>2, <2>1 DEF UsableInv, RunningSelected, EventsUntilGone
    <2>3. SelectedUsable'
      <3>1. CASE selected = u
        BY <1>0, <1>2, <2>1, <3>1 DEF UsableInv, SelectedUsable, Alive
      <3>2. CASE selected # u
        <4>1. selected # None => thread'[selected] = thread[selected]
          BY <1>0, <2>1, <3>2 DEF TypeOK
        <4> QED
          BY <1>2, <2>1, <4>1 DEF UsableInv, SelectedUsable, Alive
      <3> QED
        BY <3>1, <3>2
    <2> QED
      BY <2>2, <2>3 DEF UsableInv
  <1>3. ASSUME NEW result \in {"SUCCESS", "FAILED"}, SetUnlockData(u, result)
        PROVE  UsableInv'
    <2>1. /\ \A v \in Users : /\ tiles'[v].listed = tiles[v].listed
                             /\ tiles'[v].running = tiles[v].running
          /\ \A v \in Users \ {u} : tiles'[v].result = tiles[v].result
          /\ tiles'[u].result = result
      BY <1>0, <1>3, TileStored DEF SetUnlockData, Outcomes
    <2>2. /\ \A v \in Users \ {u} : thread'[v] = thread[v]
          /\ thread'[u] = "notify"
          /\ UNCHANGED <<provider, ui, selected, changed, retryShown, excused>>
      BY <1>0, <1>3 DEF SetUnlockData
    <2>3. RunningSelected' /\ EventsUntilGone'
      <3>1. ui.at = "join" => ui.user \in Users
        BY <1>0 DEF ThreadOfUI
      <3> QED
        BY <2>1, <2>2, <3>1 DEF UsableInv, RunningSelected, EventsUntilGone
    <2>4. SelectedUsable'
      BY <1>0, <2>1, <2>2 DEF UsableInv, SelectedUsable, Alive, TypeOK
    <2> QED
      BY <2>3, <2>4 DEF UsableInv
  <1>4. CASE ListenInvalid(u)
    BY <1>2, <1>4 DEF ListenInvalid
  <1>5. CASE ListenInit(u)
    <2>1. PICK to \in {"unlock", "network", "behavior"} : ThreadStep(u, "init", to)
      BY <1>5 DEF ListenInit
    <2> QED
      BY <1>2, <1>5, <2>1 DEF ListenInit
  <1>6. CASE ListenNetwork(u)
    BY <1>2, <1>6 DEF ListenNetwork
  <1>7. CASE ListenAbort(u)
    BY <1>2, <1>7 DEF ListenAbort
  <1>8. CASE ListenBehavior(u)
    <2>1. PICK to \in {"unlock", "key_press", "foreground"} : ThreadStep(u, "behavior", to)
      BY <1>8 DEF ListenBehavior
    <2> QED
      BY <1>2, <1>8, <2>1 DEF ListenBehavior
  <1>9. CASE ListenWoken(u)
    BY <1>2, <1>9 DEF ListenWoken
  <1>10. CASE ListenStopped(u)
    BY <1>2, <1>10 DEF ListenStopped
  <1>11. CASE ListenApproved(u) \/ ListenFailed(u)
    BY <1>3, <1>11 DEF ListenApproved, ListenFailed
  <1>12. CASE ListenNotify(u)
    <2>1. CASE provider.events
      BY <1>2, <1>12, <2>1 DEF ListenNotify
    <2>2. CASE ~provider.events
      BY <1>1, <1>2, <1>12, <2>2 DEF ListenNotify
    <2> QED
      BY <2>1, <2>2
  <1>13. CASE ListenCall(u)
    BY <1>1, <1>2, <1>13 DEF ListenCall, UpdateCredsStatus
  <1>14. CASE ListenHangs(u)
    BY <1>2, <1>14 DEF ListenHangs
  <1> QED
    BY <1>4, <1>5, <1>6, <1>7, <1>8, <1>9, <1>10, <1>11, <1>12, <1>13, <1>14
    DEF Listen, GetResultStopped

LEMMA UsableStep == CredentialInv /\ UsableInv /\ [Next]_vars => UsableInv'
  <1> SUFFICES ASSUME CredentialInv, UsableInv, [Next]_vars PROVE UsableInv'
    OBVIOUS
  <1>1. CASE CreateInstance \/ \E u \in Users : ListenCrash(u)
    BY <1>1, UsableNewProvider DEF CreateInstance, ListenCrash
  <1>2. CASE UNCHANGED vars
    BY <1>2 DEF vars, UsableInv, RunningSelected, EventsUntilGone, SelectedUsable, Alive
  <1> QED
    BY <1>1, <1>2, UsableProvider, UsableTile, UsableListen DEF Next

\* At the logon screen the selected tile is never dead: the attempt that was started
\* with it, or by Retry, runs, or has left a Retry link or an approval, or has to be
\* left and selected again (excused).  This is what the order of Stop and Start in
\* CommandLinkClicked and the CredentialsChanged at the end of ListenThread are for.
THEOREM CredentialTileUsable == Spec => []TileUsable
  <1>1. CredentialInv /\ UsableInv => TileUsable
    BY DEF CredentialInv, UsableInv, SelectedUsable, TileUsable, TypeOK, Tiles, Outcomes,
           IsUnlockSuccess, Alive, ThreadPcs
  <1> QED
    BY <1>1, CredentialInvInit, CredentialInvStep, UsableInit, UsableStep, PTL DEF Spec
=============================================================================
