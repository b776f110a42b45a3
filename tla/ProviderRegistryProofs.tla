----------------------- MODULE ProviderRegistryProofs -----------------------
(***************************************************************************)
(* Proofs about ProviderRegistry, for any runs, processes, configurations  *)
(* and keys.                                                               *)
(***************************************************************************)
EXTENDS ProviderRegistry, TLAPS

Name == Names \cup {"none"}

\* The catalogue, spelt out.
LEMMA Catalogue ==
  /\ Len(Caps) = 2 /\ CapNames = {"avatar_render", "media_sync"}
  /\ Caps[1] = "avatar_render" /\ Caps[2] = "media_sync"
  /\ \A i \in 1..2 : Caps[i] \in CapNames
  /\ \A c \in CapNames : /\ "stub" \in Catalog[c] /\ KeyedDefault[c] \in Catalog[c]
                         /\ Catalog[c] \subseteq Names
                         /\ "none" \notin Catalog[c] /\ "auto" \notin Catalog[c]
<1>1. Len(Caps) = 2 /\ Caps[1] = "avatar_render" /\ Caps[2] = "media_sync"
  BY DEF Caps
<1>2. CapNames = {"avatar_render", "media_sync"}
  <2>1. 1..2 = {1, 2}
    OBVIOUS
  <2> QED
    BY <1>1, <2>1 DEF CapNames
<1>3. \A c \in CapNames : Catalog[c] \subseteq Names
  BY DEF Names
<1>4. \A c \in CapNames : /\ "stub" \in Catalog[c] /\ KeyedDefault[c] \in Catalog[c]
                          /\ "none" \notin Catalog[c] /\ "auto" \notin Catalog[c]
  BY <1>2 DEF Catalog, KeyedDefault
<1>5. \A i \in 1..2 : Caps[i] \in CapNames
  BY <1>1, <1>2
<1> QED
  BY <1>1, <1>2, <1>3, <1>4, <1>5

\* One write to the dictionary of the run's process.
LEMMA Writing ==
  ASSUME TypeOK, NEW r \in Runs, NEW c \in CapNames, NEW n \in Names, Put(r, c, n)
  PROVE  /\ providers' \in [Processes -> [CapNames -> Name]]
         /\ providers'[Home[r]][c] = n
         /\ \A p \in Processes, d \in CapNames :
              p # Home[r] \/ d # c => providers'[p][d] = providers[p][d]
BY RegistryAssumption DEF Put, TypeOK, Name

\* One capability further, or on to the next pass.
LEMMA Stepping ==
  ASSUME TypeOK, NEW r \in Runs, NEW t \in Threads, Step(r, t)
  PROVE  /\ nextCap' \in [Runs -> 1..2] /\ thread' \in [Runs -> Threads]
         /\ \A x \in Runs : x # r => nextCap'[x] = nextCap[x] /\ thread'[x] = thread[x]
         /\ \/ nextCap[r] = 1 /\ nextCap'[r] = 2 /\ thread'[r] = thread[r]
            \/ nextCap[r] = 2 /\ nextCap'[r] = 1 /\ thread'[r] = t
<1>1. /\ nextCap \in [Runs -> 1..2] /\ thread \in [Runs -> Threads]
      /\ Len(Caps) = 2 /\ nextCap[r] \in 1..2
  BY Catalogue DEF TypeOK
<1>2. CASE nextCap[r] = 1
  BY <1>1, <1>2 DEF Step
<1>3. CASE nextCap[r] = 2
  BY <1>1, <1>3 DEF Step
<1> QED
  BY <1>1, <1>2, <1>3

\* Every variable has the type of what it stands for in the code.
THEOREM TypeCorrect == Spec => []TypeOK
<1> USE RegistryAssumption
<1>1. Init => TypeOK
  BY Catalogue DEF Init, TypeOK, Threads
<1>2. TypeOK /\ [Next]_vars => TypeOK'
  <2> SUFFICES ASSUME TypeOK, [Next]_vars PROVE TypeOK'
    OBVIOUS
  <2>0. \A r \in Runs : nextCap[r] \in 1..2 /\ Caps[nextCap[r]] \in CapNames
    BY Catalogue DEF TypeOK
  <2>1. ASSUME NEW r \in Runs, Launch(r) PROVE TypeOK'
    <3>1. alone' \in [Runs -> BOOLEAN]
      BY <2>1 DEF Launch, TypeOK, Open
    <3> QED
      BY <2>1, <3>1 DEF Launch, TypeOK, Threads, Registering
  <2>2. ASSUME NEW r \in Runs, Clear(r) PROVE TypeOK'
    BY <2>2 DEF Clear, TypeOK, Threads, Registering
  <2>3. ASSUME NEW r \in Runs, RegisterStub(r) PROVE TypeOK'
    <3>1. "stub" \in Names /\ "keyed" \in Threads
      BY Catalogue DEF Threads, Registering
    <3>2. /\ providers' \in [Processes -> [CapNames -> Name]]
          /\ nextCap' \in [Runs -> 1..2] /\ thread' \in [Runs -> Threads]
      BY <2>0, <2>3, <3>1, Writing, Stepping DEF RegisterStub
    <3> QED
      BY <2>3, <3>2, Catalogue DEF RegisterStub, TypeOK, Name
  <2>4. ASSUME NEW r \in Runs, RegisterKeyed(r) PROVE TypeOK'
    <3>1. KeyedDefault[Caps[nextCap[r]]] \in Names /\ "config" \in Threads
      BY <2>0, Catalogue DEF Threads, Registering
    <3>2. nextCap' \in [Runs -> 1..2] /\ thread' \in [Runs -> Threads]
      BY <2>4, <3>1, Stepping DEF RegisterKeyed
    <3>3. providers' \in [Processes -> [CapNames -> Name]]
      BY <2>0, <2>4, <3>1, Writing DEF RegisterKeyed, TypeOK, Name
    <3> QED
      BY <2>4, <3>2, <3>3, Catalogue DEF RegisterKeyed, TypeOK, Name
  <2>5. ASSUME NEW r \in Runs, RegisterFromConfig(r) PROVE TypeOK'
    <3> DEFINE c == Caps[nextCap[r]]
    <3>1. "polling" \in Threads /\ "dead" \in Threads
      BY DEF Threads
    <3>2. CASE UNCHANGED providers /\ Step(r, "polling")
      BY <2>5, <3>1, <3>2, Stepping, Catalogue DEF RegisterFromConfig, TypeOK
    <3>3. CASE /\ Config[r][c] \in Catalog[c]
               /\ Put(r, c, Config[r][c]) /\ Step(r, "polling")
      <4>1. Config[r][c] \in Names
        BY <2>0, <3>3, Catalogue
      <4>2. providers' \in [Processes -> [CapNames -> Name]]
        BY <2>0, <3>3, <4>1, Writing
      <4>3. nextCap' \in [Runs -> 1..2] /\ thread' \in [Runs -> Threads]
        BY <3>1, <3>3, Stepping
      <4> QED
        BY <2>5, <4>2, <4>3, Catalogue DEF RegisterFromConfig, TypeOK, Name
    <3>4. CASE /\ thread' = [thread EXCEPT ![r] = "dead"]
               /\ UNCHANGED <<providers, nextCap>>
      BY <2>5, <3>1, <3>4 DEF RegisterFromConfig, TypeOK
    <3> QED
      BY <2>5, <3>2, <3>3, <3>4 DEF RegisterFromConfig
  <2>6. ASSUME NEW r \in Runs, StartWorkflow(r) PROVE TypeOK'
    BY <2>6, Catalogue DEF StartWorkflow, TypeOK
  <2>7. ASSUME NEW r \in Runs, NEW w \in Runs, Execute(r, w) PROVE TypeOK'
    <3>1. flow[r] \in 1..2 /\ Caps[flow[r]] \in CapNames
      BY <2>7, Catalogue DEF Execute
    <3>2. providers[Home[w]][Caps[flow[r]]] \in Name
      BY <3>1 DEF TypeOK, Name
    <3>3. flow' \in [Runs -> 0..3]
      BY <2>7, <3>1, Catalogue DEF Execute, TypeOK
    <3>4. thread' \in [Runs -> Threads]
      BY <2>7 DEF Execute, TypeOK, Threads
    <3>5. used' \in [Runs -> [CapNames -> Name]]
      BY <2>7, <3>1, <3>2 DEF Execute, TypeOK, Name
    <3> QED
      BY <2>7, <3>3, <3>4, <3>5, Catalogue DEF Execute, TypeOK, Name
  <2>8. CASE UNCHANGED vars
    BY <2>8 DEF vars, TypeOK
  <2> QED
    BY <2>1, <2>2, <2>3, <2>4, <2>5, <2>6, <2>7, <2>8 DEF Next, Resolve, Quiet
<1> QED
  BY <1>1, <1>2, PTL DEF Spec
-----------------------------------------------------------------------------
(* How far registration is *)

\* A run's workflow starts after its thread has registered; a thread starts
\* every pass with the first capability.
ThreadInv ==
  \A r \in Runs :
    /\ flow[r] > 0 => thread[r] \in {"polling", "dead"}
    /\ thread[r] \in {"absent", "clear"} => nextCap[r] = 1
    /\ thread[r] = "absent" =>
         flow[r] = 0 /\ used[r] = [c \in CapNames |-> "none"]

\* Threads and workflows keep that order.
LEMMA ThreadsInOrder == Spec => []ThreadInv
<1> USE RegistryAssumption
<1>1. Init => ThreadInv
  BY DEF Init, ThreadInv
<1>2. TypeOK /\ ThreadInv /\ [Next]_vars => ThreadInv'
  <2> SUFFICES ASSUME TypeOK, ThreadInv, [Next]_vars PROVE ThreadInv'
    OBVIOUS
  <2>1. ASSUME NEW r \in Runs, Launch(r) PROVE ThreadInv'
    BY <2>1 DEF Launch, ThreadInv, TypeOK
  <2>2. ASSUME NEW r \in Runs, Clear(r) PROVE ThreadInv'
    BY <2>2 DEF Clear, ThreadInv, TypeOK
  <2>3. ASSUME NEW r \in Runs, NEW t \in Threads \ {"absent", "clear"}, Step(r, t),
               thread[r] \in {"stubs", "keyed", "config"}, UNCHANGED <<flow, used>>
        PROVE  ThreadInv'
    BY <2>3, Stepping DEF ThreadInv, TypeOK
  <2>4. ASSUME NEW r \in Runs, RegisterStub(r) PROVE ThreadInv'
    BY <2>3, <2>4 DEF RegisterStub, Threads, Registering
  <2>5. ASSUME NEW r \in Runs, RegisterKeyed(r) PROVE ThreadInv'
    BY <2>3, <2>5 DEF RegisterKeyed, Threads, Registering
  <2>6. ASSUME NEW r \in Runs, RegisterFromConfig(r) PROVE ThreadInv'
    <3>1. CASE Step(r, "polling")
      BY <2>3, <2>6, <3>1 DEF RegisterFromConfig, Threads
    <3>2. CASE thread' = [thread EXCEPT ![r] = "dead"] /\ UNCHANGED nextCap
      BY <2>6, <3>2 DEF RegisterFromConfig, ThreadInv, TypeOK
    <3> QED
      BY <2>6, <3>1, <3>2 DEF RegisterFromConfig
  <2>7. ASSUME NEW r \in Runs, StartWorkflow(r) PROVE ThreadInv'
    BY <2>7 DEF StartWorkflow, ThreadInv, TypeOK
  <2>8. ASSUME NEW r \in Runs, NEW w \in Runs, Execute(r, w) PROVE ThreadInv'
    <3>1. flow[r] \in 1..2 /\ thread[r] \in {"polling", "dead"}
      BY <2>8, Catalogue DEF Execute, ThreadInv
    <3>2. /\ \A x \in Runs : x # r => flow'[x] = flow[x] /\ used'[x] = used[x]
                                      /\ thread'[x] = thread[x]
          /\ thread'[r] \in {"polling", "dead"} /\ UNCHANGED nextCap
      BY <2>8, <3>1 DEF Execute, TypeOK
    <3> QED
      BY <3>1, <3>2 DEF ThreadInv
  <2>9. CASE UNCHANGED vars
    BY <2>9 DEF vars, ThreadInv
  <2> QED
    BY <2>1, <2>2, <2>4, <2>5, <2>6, <2>7, <2>8, <2>9 DEF Next, Resolve, Quiet
<1> QED
  BY <1>1, <1>2, TypeCorrect, PTL DEF Spec

\* An entry is there, or some thread of the process will still put a stub, or
\* none has begun.
FillInv ==
  \A p \in Processes, i \in 1..2 :
    \/ providers[p][Caps[i]] # "none"
    \/ \E x \in Runs : Home[x] = p /\ thread[x] = "stubs" /\ nextCap[x] <= i
    \/ \A x \in Runs : Home[x] = p => thread[x] \in {"absent", "clear"}

\* One write, as the two invariants see it.
LEMMA Filling ==
  ASSUME TypeOK, FillInv, NEW r \in Runs, thread[r] # "stubs",
         \A x \in Runs : x # r => thread'[x] = thread[x] /\ nextCap'[x] = nextCap[x],
         \/ thread'[r] = thread[r]
         \/ thread[r] \notin {"absent", "clear"}
            /\ thread'[r] \in {"config", "polling", "dead"},
         \A p \in Processes, c \in CapNames :
           providers'[p][c] = providers[p][c] \/ providers'[p][c] # "none"
  PROVE  FillInv'
<1> SUFFICES ASSUME NEW p \in Processes, NEW i \in 1..2
             PROVE  \/ providers'[p][Caps[i]] # "none"
                    \/ \E x \in Runs : Home[x] = p /\ thread'[x] = "stubs" /\ nextCap'[x] <= i
                    \/ \A x \in Runs : Home[x] = p => thread'[x] \in {"absent", "clear"}
  BY DEF FillInv
<1>1. Caps[i] \in CapNames
  BY Catalogue
<1>2. CASE providers[p][Caps[i]] # "none"
  BY <1>1, <1>2
<1>3. CASE \E x \in Runs : Home[x] = p /\ thread[x] = "stubs" /\ nextCap[x] <= i
  BY <1>3
<1>4. CASE \A x \in Runs : Home[x] = p => thread[x] \in {"absent", "clear"}
  BY <1>4
<1> QED
  BY <1>2, <1>3, <1>4 DEF FillInv

\* However many threads resolve at once, a registry is incomplete only while
\* one of them is between its clear and its last stub.
THEOREM RegistryIsComplete == Spec => []RegistryComplete
<1> USE RegistryAssumption
<1>1. Init => FillInv
  BY DEF Init, FillInv
<1>2. TypeOK /\ ThreadInv /\ FillInv /\ [Next]_vars => FillInv'
  <2> SUFFICES ASSUME TypeOK, ThreadInv, FillInv, [Next]_vars PROVE FillInv'
    OBVIOUS
  <2>0. \A r \in Runs : nextCap[r] \in 1..2 /\ Caps[nextCap[r]] \in CapNames
    BY Catalogue DEF TypeOK
  <2>1. ASSUME NEW r \in Runs, Launch(r) PROVE FillInv'
    BY <2>1 DEF Launch, FillInv, TypeOK
  <2>2. ASSUME NEW r \in Runs, Clear(r) PROVE FillInv'
    <3>1. thread'[r] = "stubs" /\ nextCap'[r] = 1 /\ thread[r] = "clear"
      BY <2>2 DEF Clear, TypeOK, ThreadInv
    <3>2. /\ \A x \in Runs : x # r => thread'[x] = thread[x]
          /\ \A p \in Processes : p # Home[r] => providers'[p] = providers[p]
          /\ nextCap' = nextCap
      BY <2>2 DEF Clear, TypeOK
    <3> QED
      BY <3>1, <3>2 DEF FillInv
  <2>3. ASSUME NEW r \in Runs, RegisterStub(r) PROVE FillInv'
    <3>1. "stub" \in Names /\ "stub" # "none" /\ "keyed" \in Threads
      BY Catalogue DEF Threads, Registering
    <3>2. /\ providers'[Home[r]][Caps[nextCap[r]]] = "stub"
          /\ \A p \in Processes, d \in CapNames :
               \/ providers'[p][d] = providers[p][d]
               \/ p = Home[r] /\ d = Caps[nextCap[r]]
      BY <2>0, <2>3, <3>1, Writing DEF RegisterStub
    <3>3. /\ \A x \in Runs : x # r => nextCap'[x] = nextCap[x] /\ thread'[x] = thread[x]
          /\ \/ nextCap[r] = 1 /\ nextCap'[r] = 2 /\ thread'[r] = thread[r]
             \/ nextCap[r] = 2 /\ nextCap'[r] = 1 /\ thread'[r] = "keyed"
          /\ thread[r] = "stubs"
      BY <2>3, <3>1, Stepping DEF RegisterStub
    <3> SUFFICES ASSUME NEW p \in Processes, NEW i \in 1..2,
                        providers'[p][Caps[i]] = "none"
                 PROVE  \/ \E x \in Runs : Home[x] = p /\ thread'[x] = "stubs" /\ nextCap'[x] <= i
                        \/ \A x \in Runs : Home[x] = p => thread'[x] \in {"absent", "clear"}
      BY DEF FillInv
    <3>4. providers[p][Caps[i]] = "none" /\ (p # Home[r] \/ i # nextCap[r])
      BY <3>1, <3>2, Catalogue
    <3>5. CASE p # Home[r]
      BY <3>3, <3>4, <3>5 DEF FillInv
    <3>6. CASE p = Home[r]
      <4>1. PICK x \in Runs : Home[x] = p /\ thread[x] = "stubs" /\ nextCap[x] <= i
        BY <3>3, <3>4, <3>6 DEF FillInv
      <4>2. CASE x # r
        BY <3>3, <4>1, <4>2
      <4>3. CASE x = r
        BY <2>0, <3>3, <3>4, <3>6, <4>1, <4>3
      <4> QED
        BY <4>2, <4>3
    <3> QED
      BY <3>5, <3>6
  <2>4. ASSUME NEW r \in Runs, RegisterKeyed(r) PROVE FillInv'
    <3>1. /\ KeyedDefault[Caps[nextCap[r]]] \in Names /\ "config" \in Threads
          /\ KeyedDefault[Caps[nextCap[r]]] # "none"
      BY <2>0, Catalogue DEF Threads, Registering
    <3>2. \A p \in Processes, d \in CapNames :
            providers'[p][d] = providers[p][d] \/ providers'[p][d] # "none"
      BY <2>0, <2>4, <3>1, Writing DEF RegisterKeyed
    <3>3. /\ \A x \in Runs : x # r => nextCap'[x] = nextCap[x] /\ thread'[x] = thread[x]
          /\ thread'[r] = thread[r] \/ thread'[r] = "config"
          /\ thread[r] = "keyed"
      BY <2>4, <3>1, Stepping DEF RegisterKeyed
    <3> QED
      BY <3>2, <3>3, Filling
  <2>5. ASSUME NEW r \in Runs, RegisterFromConfig(r) PROVE FillInv'
    <3> DEFINE c == Caps[nextCap[r]]
    <3>1. "polling" \in Threads /\ "dead" \in Threads /\ thread[r] = "config"
      BY <2>5 DEF Threads, RegisterFromConfig
    <3>2. \A p \in Processes, d \in CapNames :
            providers'[p][d] = providers[p][d] \/ providers'[p][d] # "none"
      <4>1. CASE UNCHANGED providers
        BY <4>1
      <4>2. CASE Config[r][c] \in Catalog[c] /\ Put(r, c, Config[r][c])
        <5>1. Config[r][c] \in Names /\ Config[r][c] # "none"
          BY <2>0, <4>2, Catalogue
        <5> QED
          BY <2>0, <4>2, <5>1, Writing
      <4> QED
        BY <2>5, <4>1, <4>2 DEF RegisterFromConfig
    <3>3. CASE Step(r, "polling")
      <4>1. /\ \A x \in Runs : x # r => nextCap'[x] = nextCap[x] /\ thread'[x] = thread[x]
            /\ thread'[r] = thread[r] \/ thread'[r] = "polling"
        BY <3>1, <3>3, Stepping
      <4> QED
        BY <3>1, <3>2, <4>1, Filling
    <3>4. CASE thread' = [thread EXCEPT ![r] = "dead"] /\ UNCHANGED nextCap
      <4>1. /\ \A x \in Runs : x # r => nextCap'[x] = nextCap[x] /\ thread'[x] = thread[x]
            /\ thread'[r] = "dead"
        BY <3>4 DEF TypeOK
      <4> QED
        BY <3>1, <3>2, <4>1, Filling
    <3> QED
      BY <2>5, <3>3, <3>4 DEF RegisterFromConfig
  <2>6. ASSUME NEW r \in Runs, StartWorkflow(r) PROVE FillInv'
    BY <2>6 DEF StartWorkflow, FillInv
  <2>7. ASSUME NEW r \in Runs, NEW w \in Runs, Execute(r, w) PROVE FillInv'
    <3>1. thread[r] \in {"polling", "dead"}
      BY <2>7, Catalogue DEF Execute, ThreadInv
    <3>2. /\ \A x \in Runs : x # r => thread'[x] = thread[x] /\ nextCap'[x] = nextCap[x]
          /\ thread'[r] = thread[r] \/ thread'[r] = "dead"
          /\ UNCHANGED providers
      BY <2>7 DEF Execute, TypeOK
    <3> QED
      BY <3>1, <3>2, Filling
  <2>8. CASE UNCHANGED vars
    BY <2>8 DEF vars, FillInv
  <2> QED
    BY <2>1, <2>2, <2>3, <2>4, <2>5, <2>6, <2>7, <2>8 DEF Next, Resolve, Quiet
<1>3. TypeOK /\ FillInv => RegistryComplete
  <2> SUFFICES ASSUME TypeOK, FillInv, NEW r \in Runs,
                      thread[r] \in {"keyed", "config", "polling"},
                      \A x \in Runs : Home[x] = Home[r] => thread[x] # "stubs",
                      NEW c \in CapNames
               PROVE  providers[Home[r]][c] # "none"
    BY DEF RegistryComplete
  <2>1. PICK i \in 1..2 : c = Caps[i]
    BY Catalogue
  <2> QED
    BY <2>1 DEF FillInv
<1> QED
  BY <1>1, <1>2, <1>3, TypeCorrect, ThreadsInOrder, PTL DEF Spec
-----------------------------------------------------------------------------
(* A run that is alone *)

\* What a key, or its absence, selects.
Default(c) == IF c \in Keyed THEN KeyedDefault[c] ELSE "stub"

\* The entry of a capability as far as the run's own thread has come with it.
Progress(r, i) ==
  LET entry == providers[Home[r]][Caps[i]]
  IN CASE thread[r] = "stubs"   -> i < nextCap[r] => entry = "stub"
       [] thread[r] = "keyed"   -> entry = IF i < nextCap[r] THEN Default(Caps[i])
                                                             ELSE "stub"
       [] thread[r] = "config"  -> entry = IF i < nextCap[r] THEN Resolution(r, Caps[i])
                                                             ELSE Default(Caps[i])
       [] thread[r] = "polling" -> entry = Resolution(r, Caps[i])
       [] OTHER -> TRUE

\* Nobody else is open or polls from elsewhere; and only a command's thread can
\* die of a name.
Secluded(r) ==
  /\ \A y \in Runs : y # r => /\ ~ Open(y)
                              /\ Home[y] = Home[r] \/ thread[y] # "polling"
  /\ \A i \in 1..2 : Progress(r, i)
  /\ thread[r] = "dead" => Home[r] \notin LongLived

AloneInv == \A r \in Runs : alone[r] /\ Open(r) => Secluded(r)

\* Beside a secluded run nobody is open.
LEMMA OnlyOne ==
  ASSUME AloneInv, NEW r \in Runs, NEW t \in Runs, Open(r), alone[t], Open(t)
  PROVE  t = r
BY DEF AloneInv, Secluded

\* The step of the one open run, which stays in its place.
LEMMA Secluding ==
  ASSUME TypeOK, AloneInv, NEW r \in Runs, Open(r), UNCHANGED alone,
         \A x \in Runs : x # r => thread'[x] = thread[x] /\ flow'[x] = flow[x],
         alone[r] /\ Open(r)' /\ Secluded(r) =>
           /\ \A i \in 1..2 : Progress(r, i)'
           /\ thread'[r] = "dead" => Home[r] \notin LongLived
  PROVE  AloneInv'
<1> SUFFICES ASSUME NEW t \in Runs, alone[t], Open(t)' PROVE Secluded(t)'
  BY DEF AloneInv
<1>1. CASE t = r
  <2>1. Secluded(r)
    BY <1>1 DEF AloneInv
  <2>2. /\ \A i \in 1..2 : Progress(r, i)'
        /\ thread'[r] = "dead" => Home[r] \notin LongLived
    BY <1>1, <2>1
  <2>3. \A y \in Runs : y # r => /\ ~ Open(y)'
                                 /\ Home[y] = Home[r] \/ thread'[y] # "polling"
    BY <2>1 DEF Secluded, Open
  <2> QED
    BY <1>1, <2>2, <2>3 DEF Secluded
<1>2. CASE t # r
  <2>1. Open(t)
    BY <1>2 DEF Open
  <2> QED
    BY <1>2, <2>1, OnlyOne
<1> QED
  BY <1>1, <1>2

\* Registration takes a secluded run's entries from stubs to their resolution.
LEMMA Progressing ==
  ASSUME TypeOK, ThreadInv, NEW r \in Runs, Resolve(r), \A i \in 1..2 : Progress(r, i)
  PROVE  /\ \A i \in 1..2 : Progress(r, i)'
         /\ thread'[r] = "dead" => Home[r] \notin LongLived
         /\ \A x \in Runs : x # r => thread'[x] = thread[x]
         /\ Open(r) /\ UNCHANGED <<alone, flow, used>>
<1> USE RegistryAssumption
<1> DEFINE n == nextCap[r]
           c == Caps[nextCap[r]]
<1>0. n \in 1..2 /\ c \in CapNames /\ Caps[1] # Caps[2]
      /\ Caps[1] \in CapNames /\ Caps[2] \in CapNames
  BY Catalogue DEF TypeOK
<1>1. Open(r) /\ UNCHANGED <<alone, flow, used>>
  <2>1. thread[r] \in Registering /\ UNCHANGED <<alone, flow, used>>
    BY DEF Resolve, Clear, RegisterStub, RegisterKeyed, RegisterFromConfig, Registering
  <2>2. ~ flow[r] > 0 /\ flow[r] \in 0..3
    <3> HIDE DEF c, n
    <3> QED
      BY <2>1, Catalogue DEF ThreadInv, Registering, TypeOK
  <2> QED
    BY <2>1, <2>2, Catalogue DEF Open, Registering
<1>2. CASE Clear(r)
  <2>1. thread'[r] = "stubs" /\ nextCap'[r] = 1
    BY <1>2 DEF Clear, TypeOK, ThreadInv
  <2>2. \A i \in 1..2 : Progress(r, i)'
    BY <2>1 DEF Progress
  <2>3. \A x \in Runs : x # r => thread'[x] = thread[x]
    BY <1>2 DEF Clear, TypeOK
  <2> QED
    BY <1>1, <2>1, <2>2, <2>3
<1>3. CASE RegisterStub(r)
  <2>1. "stub" \in Names /\ "keyed" \in Threads /\ thread[r] = "stubs"
    BY <1>3, Catalogue DEF Threads, Registering, RegisterStub
  <2>2. /\ providers'[Home[r]][c] = "stub"
        /\ \A d \in CapNames : d # c => providers'[Home[r]][d] = providers[Home[r]][d]
    BY <1>0, <1>3, <2>1, Writing DEF RegisterStub
  <2>3. /\ \A x \in Runs : x # r => thread'[x] = thread[x]
        /\ \/ n = 1 /\ nextCap'[r] = 2 /\ thread'[r] = thread[r]
           \/ n = 2 /\ nextCap'[r] = 1 /\ thread'[r] = "keyed"
    BY <1>3, <2>1, Stepping DEF RegisterStub
  <2>4. n = 2 => providers[Home[r]][Caps[1]] = "stub"
    BY <2>1 DEF Progress
  <2>5. \A i \in 1..2 : Progress(r, i)'
    BY <1>0, <2>1, <2>2, <2>3, <2>4 DEF Progress
  <2> QED
    BY <1>1, <2>1, <2>3, <2>5
<1>4. CASE RegisterKeyed(r)
  <2>1. /\ KeyedDefault[c] \in Names /\ "config" \in Threads /\ thread[r] = "keyed"
    BY <1>0, <1>4, Catalogue DEF Threads, Registering, RegisterKeyed
  <2>2. providers[Home[r]][c] = "stub"
    BY <1>0, <2>1 DEF Progress
  <2>3. /\ providers'[Home[r]][c] = Default(c)
        /\ \A d \in CapNames : d # c => providers'[Home[r]][d] = providers[Home[r]][d]
    BY <1>0, <1>4, <2>1, <2>2, Writing DEF RegisterKeyed, Default
  <2>4. /\ \A x \in Runs : x # r => thread'[x] = thread[x]
        /\ \/ n = 1 /\ nextCap'[r] = 2 /\ thread'[r] = thread[r]
           \/ n = 2 /\ nextCap'[r] = 1 /\ thread'[r] = "config"
    BY <1>4, <2>1, Stepping DEF RegisterKeyed
  <2>5. /\ n = 1 => providers[Home[r]][Caps[2]] = "stub"
        /\ n = 2 => providers[Home[r]][Caps[1]] = Default(Caps[1])
    BY <2>1 DEF Progress
  <2>6. \A i \in 1..2 : Progress(r, i)'
    BY <1>0, <2>1, <2>3, <2>4, <2>5 DEF Progress
  <2> QED
    BY <1>1, <2>1, <2>4, <2>6
<1>5. CASE RegisterFromConfig(r)
  <2>1. "polling" \in Threads /\ thread[r] = "config"
    BY <1>5 DEF Threads, RegisterFromConfig
  <2>2. providers[Home[r]][c] = Default(c)
    BY <1>0, <2>1 DEF Progress
  <2>3. /\ n = 1 => providers[Home[r]][Caps[2]] = Default(Caps[2])
        /\ n = 2 => providers[Home[r]][Caps[1]] = Resolution(r, Caps[1])
    BY <2>1 DEF Progress
  <2>4. CASE /\ Step(r, "polling")
             /\ \/ Config[r][c] = "auto" /\ UNCHANGED providers
                \/ Config[r][c] \in Catalog[c] /\ Put(r, c, Config[r][c])
    <3>1. /\ providers'[Home[r]][c] = Resolution(r, c)
          /\ \A d \in CapNames : d # c => providers'[Home[r]][d] = providers[Home[r]][d]
      <4>1. CASE Config[r][c] = "auto" /\ UNCHANGED providers
        BY <2>2, <4>1 DEF Resolution, Default
      <4>2. CASE Config[r][c] \in Catalog[c] /\ Put(r, c, Config[r][c])
        <5>1. Config[r][c] \in Names /\ Config[r][c] # "auto"
          BY <1>0, <4>2, Catalogue
        <5>2. Resolution(r, c) = Config[r][c]
          <6> HIDE DEF c
          <6> QED
            BY <5>1 DEF Resolution
        <5> QED
          BY <1>0, <4>2, <5>1, <5>2, Writing
      <4> QED
        BY <2>4, <4>1, <4>2
    <3>2. /\ \A x \in Runs : x # r => thread'[x] = thread[x]
          /\ \/ n = 1 /\ nextCap'[r] = 2 /\ thread'[r] = thread[r]
             \/ n = 2 /\ nextCap'[r] = 1 /\ thread'[r] = "polling"
      BY <2>1, <2>4, Stepping
    <3>3. \A i \in 1..2 : Progress(r, i)'
      BY <1>0, <2>1, <2>3, <3>1, <3>2 DEF Progress, Resolution
    <3> QED
      BY <1>1, <2>1, <3>2, <3>3
  <2>5. CASE /\ Config[r][c] # "auto" /\ Config[r][c] \notin Catalog[c]
             /\ thread' = [thread EXCEPT ![r] = "dead"]
    <3>1. thread'[r] = "dead" /\ \A x \in Runs : x # r => thread'[x] = thread[x]
      BY <2>5 DEF TypeOK
    <3>2. \A i \in 1..2 : Progress(r, i)'
      BY <3>1 DEF Progress
    <3>3. Home[r] \notin LongLived
      BY <1>0, <2>5, HomeAssumption
    <3> QED
      BY <1>1, <3>1, <3>2, <3>3
  <2> QED
    BY <1>5, <2>4, <2>5 DEF RegisterFromConfig
<1> QED
  BY <1>2, <1>3, <1>4, <1>5 DEF Resolve

\* Each stage of a run that nothing else was open beside is executed by the
\* provider the run's own configuration resolves to.
THEOREM AloneRunsGetTheirs == Spec => []RunGetsItsProviders
<1> USE RegistryAssumption
<1>1. Init => AloneInv /\ RunGetsItsProviders
  BY DEF Init, AloneInv, RunGetsItsProviders
<1>2. TypeOK /\ ThreadInv /\ AloneInv /\ RunGetsItsProviders /\ [Next]_vars
        => AloneInv' /\ RunGetsItsProviders'
  <2> SUFFICES ASSUME TypeOK, ThreadInv, AloneInv, RunGetsItsProviders, [Next]_vars
               PROVE  AloneInv' /\ RunGetsItsProviders'
    OBVIOUS
  <2>1. ASSUME NEW r \in Runs, Launch(r)
        PROVE  AloneInv' /\ RunGetsItsProviders'
    <3>1. /\ thread[r] = "absent" /\ thread'[r] = "clear"
          /\ \A x \in Runs : x # r => thread'[x] = thread[x]
          /\ UNCHANGED <<providers, nextCap, flow, used>>
      BY <2>1 DEF Launch, TypeOK
    <3>2. /\ alone'[r] = \A y \in Runs : /\ ~ Open(y)
                                         /\ Home[y] = Home[r] \/ thread[y] # "polling"
          /\ \A x \in Runs : x # r => alone'[x] = (alone[x] /\ ~ Open(x))
      BY <2>1 DEF Launch
    <3>3. ASSUME NEW t \in Runs, alone'[t], Open(t)' PROVE Secluded(t)'
      <4>1. t = r
        BY <3>1, <3>2, <3>3 DEF Open
      <4>2. \A i \in 1..2 : Progress(r, i)'
        BY <3>1 DEF Progress
      <4>3. \A y \in Runs : y # r => /\ ~ Open(y)'
                                     /\ Home[y] = Home[r] \/ thread'[y] # "polling"
        BY <3>1, <3>2, <3>3, <4>1 DEF Open
      <4> QED
        BY <3>1, <4>1, <4>2, <4>3 DEF Secluded
    <3>4. RunGetsItsProviders'
      <4> SUFFICES ASSUME NEW t \in Runs, NEW c \in CapNames, alone'[t]
                   PROVE  used[t][c] \in {"none", Resolution(t, c)}
        BY <3>1 DEF RunGetsItsProviders, Resolution
      <4>1. CASE t = r
        BY <3>1, <4>1 DEF ThreadInv
      <4>2. CASE t # r
        BY <3>2, <4>2 DEF RunGetsItsProviders
      <4> QED
        BY <4>1, <4>2
    <3> QED
      BY <3>3, <3>4 DEF AloneInv
  <2>2. ASSUME NEW r \in Runs, Resolve(r)
        PROVE  AloneInv' /\ RunGetsItsProviders'
    <3>1. Open(r) /\ UNCHANGED <<alone, flow, used>>
      <4>1. thread[r] \in Registering /\ UNCHANGED <<alone, flow, used>>
        BY <2>2 DEF Resolve, Clear, RegisterStub, RegisterKeyed, RegisterFromConfig,
                    Registering
      <4>2. flow[r] = 0
        BY <4>1 DEF ThreadInv, Registering, TypeOK
      <4> QED
        BY <4>1, <4>2, Catalogue DEF Open, Registering
    <3>2. \A x \in Runs : x # r => thread'[x] = thread[x]
      <4>1. \/ \E t \in Threads : Step(r, t)
            \/ \E t \in Threads : thread' = [thread EXCEPT ![r] = t]
        BY <2>2 DEF Resolve, Clear, RegisterStub, RegisterKeyed, RegisterFromConfig,
                    Threads, Registering
      <4> QED
        BY <4>1, Stepping DEF TypeOK
    <3>3. Secluded(r) => /\ \A i \in 1..2 : Progress(r, i)'
                         /\ thread'[r] = "dead" => Home[r] \notin LongLived
      BY <2>2, Progressing DEF Secluded
    <3>4. AloneInv'
      BY <3>1, <3>2, <3>3, Secluding
    <3> QED
      BY <3>1, <3>4 DEF RunGetsItsProviders, Resolution
  <2>3. ASSUME NEW r \in Runs, StartWorkflow(r)
        PROVE  AloneInv' /\ RunGetsItsProviders'
    <3>1. /\ flow[r] = 0 /\ thread[r] \in {"polling", "dead"}
          /\ UNCHANGED <<providers, thread, nextCap, used, alone>>
          /\ \A x \in Runs : x # r => flow'[x] = flow[x]
      BY <2>3 DEF StartWorkflow, TypeOK
    <3>2. Open(r)
      BY <3>1, Catalogue DEF Open
    <3>3. Secluded(r) => /\ \A i \in 1..2 : Progress(r, i)'
                         /\ thread'[r] = "dead" => Home[r] \notin LongLived
      BY <3>1 DEF Secluded, Progress, Resolution
    <3>4. AloneInv'
      BY <3>1, <3>2, <3>3, Secluding
    <3> QED
      BY <3>1, <3>4 DEF RunGetsItsProviders, Resolution
  <2>4. ASSUME NEW r \in Runs, NEW w \in Runs, Execute(r, w)
        PROVE  AloneInv' /\ RunGetsItsProviders'
    <3> DEFINE c == Caps[flow[r]]
    <3>1. /\ flow[r] \in 1..2 /\ thread[w] = "polling"
          /\ used' = [used EXCEPT ![r][c] = providers[Home[w]][c]]
          /\ flow' = [flow EXCEPT ![r] = @ + 1]
          /\ thread' = IF flow[r] = 2 /\ Home[r] \notin LongLived
                         THEN [thread EXCEPT ![r] = "dead"] ELSE thread
          /\ UNCHANGED <<providers, nextCap, alone>>
      BY <2>4, Catalogue DEF Execute
    <3>2. Open(r) /\ thread[r] \in {"polling", "dead"}
      BY <3>1, Catalogue DEF Open, ThreadInv
    <3>3. /\ \A x \in Runs : x # r => thread'[x] = thread[x] /\ flow'[x] = flow[x]
          /\ Open(r)' => thread'[r] = thread[r]
      BY <3>1, Catalogue DEF TypeOK, Open
    <3>4. Secluded(r) /\ Open(r)' => /\ \A i \in 1..2 : Progress(r, i)'
                                     /\ thread'[r] = "dead" => Home[r] \notin LongLived
      BY <3>1, <3>3 DEF Secluded, Progress, Resolution
    <3>5. AloneInv'
      BY <3>1, <3>2, <3>3, <3>4, Secluding
    <3>6. ASSUME alone[r] PROVE providers[Home[w]][c] = Resolution(r, c)
      <4>1. Secluded(r)
        BY <3>2, <3>6 DEF AloneInv
      <4>2. Home[w] = Home[r]
        BY <3>1, <4>1 DEF Secluded
      <4>3. thread[r] = "polling"
        BY <3>1, <3>2, <4>1, <4>2, HomeAssumption DEF Secluded
      <4>4. Progress(r, flow[r])
        BY <3>1, <4>1 DEF Secluded
      <4> QED
        BY <4>2, <4>3, <4>4 DEF Progress
    <3>7. RunGetsItsProviders'
      <4> SUFFICES ASSUME NEW t \in Runs, NEW d \in CapNames, alone[t]
                   PROVE  used'[t][d] \in {"none", Resolution(t, d)}
        BY <3>1 DEF RunGetsItsProviders, Resolution
      <4>1. CASE t = r /\ d = c
        BY <3>1, <3>6, <4>1 DEF TypeOK
      <4>2. CASE t # r \/ d # c
        <5>1. used'[t][d] = used[t][d]
          BY <3>1, <4>2 DEF TypeOK
        <5> QED
          BY <5>1 DEF RunGetsItsProviders
      <4> QED
        BY <4>1, <4>2
    <3> QED
      BY <3>5, <3>7
  <2>5. CASE UNCHANGED vars
    BY <2>5 DEF vars, AloneInv, Secluded, Progress, Open, RunGetsItsProviders, Resolution
  <2> QED
    BY <2>1, <2>2, <2>3, <2>4, <2>5 DEF Next, Quiet
<1> QED
  BY <1>1, <1>2, TypeCorrect, ThreadsInOrder, PTL DEF Spec
=============================================================================
