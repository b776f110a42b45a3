----------------------- MODULE ConsentRegistryProofs -----------------------
(***************************************************************************)
(* Proofs about ConsentRegistry, for any versions, budget and bounds.      *)
(***************************************************************************)
EXTENDS ConsentRegistry, TLAPS

\* The types, and that only an attempt that is not the last is followed by a
\* fetch.
TypeInv == TypeOK /\ (at = "refetch" => attempt < RetryBudget)

\* Whatever seed scripts, owners and the run do keeps the types.
LEMMA Typing == Spec => []TypeInv
<1> USE BudgetAssumption, VersionAssumption, BoundAssumption
        DEF TypeInv, TypeOK, Kinds, Keys, Key, Ref, NoRef, Places
<1>1. Init => TypeInv
  BY DEF Init
<1>2. TypeInv /\ [Next]_vars => TypeInv'
  <2> SUFFICES ASSUME TypeInv, [Next]_vars PROVE TypeInv'
    OBVIOUS
  <2>1. ASSUME NEW k \in Kinds, NEW v \in Versions, SeedStores(k, v)
        PROVE  TypeInv'
    BY <2>1 DEF SeedStores, run, bounds
  <2>2. ASSUME NEW k \in Kinds, NEW v \in Versions, SeedWrites(k, v)
        PROVE  TypeInv'
    BY <2>2 DEF SeedWrites
  <2>3. ASSUME NEW k \in Kinds, NEW v \in Versions, SeedDies(k, v)
        PROVE  TypeInv'
    BY <2>3 DEF SeedDies, run, bounds
  <2>4. ASSUME NEW k \in Kinds, Withdraw(k)
        PROVE  TypeInv'
    BY <2>4 DEF Withdraw, run
  <2>5. ASSUME NEW p, NEW k \in Kinds, NEW n \in {"check_voice", "fetch"},
               Validate(p, k, n)
        PROVE  TypeInv'
    BY <2>5 DEF Validate, registry, bounds
  <2>6. CASE FetchIdentity("fetch", "read_voice")
    BY <2>6 DEF FetchIdentity, registry, bounds
  <2>7. CASE FetchIdentity("refetch", "render")
    BY <2>7 DEF FetchIdentity, registry, bounds
  <2>8. CASE ReadVoice
    BY <2>8 DEF ReadVoice, registry, bounds
  <2>9. CASE Speak
    BY <2>9 DEF Speak, CountLate, registry, bounds
  <2>10. CASE SpeakRaises
    BY <2>10 DEF SpeakRaises, CountLate, registry
  <2>11. CASE VoicePasses
    BY <2>11 DEF VoicePasses, registry, bounds
  <2>12. CASE VoiceFails
    BY <2>12 DEF VoiceFails, Retry, registry
  <2>13. CASE RenderPasses
    BY <2>13 DEF RenderPasses, CountLate, registry, bounds
  <2>14. CASE RenderRaises
    BY <2>14 DEF RenderRaises, CountLate, registry
  <2>15. CASE RenderFails
    BY <2>15 DEF RenderFails, CountLate, Retry, registry
  <2>16. CASE UNCHANGED vars
    BY <2>16 DEF vars, registry, run, bounds
  <2> QED
    BY <2>1, <2>2, <2>3, <2>4, <2>5, <2>6, <2>7, <2>8, <2>9, <2>10, <2>11,
       <2>12, <2>13, <2>14, <2>15, <2>16
       DEF Next, Run, Owners, RefusedTry, Over
<1> QED
  BY <1>1, <1>2, PTL DEF Spec

\* Every variable has the type of what it stands for in the code.
THEOREM TypeCorrect == Spec => []TypeOK
<1>1. TypeInv => TypeOK
  BY DEF TypeInv
<1> QED
  BY <1>1, Typing, PTL
-----------------------------------------------------------------------------
(* References *)

\* What was stored under the key of its content is still there; a seed script
\* writes no row before its asset is stored.
StoreInv ==
  /\ \A k \in Kinds : rows[k].ref = Ref(k, rows[k].ref.hash)
                      /\ store[rows[k].ref.path] = rows[k].ref.hash
  /\ \A p \in pending : store[Key(p[1], p[2])] = p[2]
  /\ face # NoRef => /\ face = Ref("identity", face.hash)
                     /\ face.hash \in Versions
                     /\ store[face.path] = face.hash

\* put_artifact only ever writes a content under its own key.
LEMMA StoredStays ==
  ASSUME TypeOK, NEW k \in Kinds, NEW v \in Versions, SeedStores(k, v),
         NEW c \in Kinds, NEW w \in Versions, store[Key(c, w)] = w
  PROVE  store'[Key(c, w)] = w
BY DEF SeedStores, TypeOK, Key, Keys, Kinds

\* A reference that was handed out, to a row or to a run, can be read for ever:
\* content is added under keys of its own, and a row is written last.
THEOREM ReferencesStay == Spec => []ReferencesResolve
<1> USE VersionAssumption
<1>1. Init => StoreInv
  <2> SUFFICES ASSUME Init PROVE StoreInv
    OBVIOUS
  <2>1. PICK f \in Versions, v \in Versions :
          /\ rows = [k \in Kinds |->
                      [consent |-> "active",
                       ref |-> Ref(k, IF k = "identity" THEN f ELSE v)]]
          /\ store = [k \in Keys |->
                       IF k \in {Key("identity", f), Key("voice", v)}
                         THEN IF k[1] = "identity" THEN f ELSE v
                         ELSE 0]
    BY DEF Init
  <2>2. /\ rows["identity"].ref = Ref("identity", f)
        /\ rows["voice"].ref = Ref("voice", v)
    BY <2>1 DEF Kinds
  <2>3. /\ store[Key("identity", f)] = f
        /\ store[Key("voice", v)] = v
    BY <2>1 DEF Keys, Key, Kinds
  <2> QED
    BY <2>2, <2>3 DEF Init, StoreInv, Ref, Kinds
<1>2. TypeOK /\ StoreInv /\ [Next]_vars => StoreInv'
  <2> SUFFICES ASSUME TypeOK, StoreInv, [Next]_vars PROVE StoreInv'
    OBVIOUS
  <2> USE DEF StoreInv
  <2>1. ASSUME NEW k \in Kinds, NEW v \in Versions, SeedStores(k, v)
        PROVE  StoreInv'
    <3>1. rows' = rows /\ face' = face
          /\ pending' = pending \cup {<<k, v>>} /\ store'[Key(k, v)] = v
      BY <2>1 DEF SeedStores, run, TypeOK, Keys, Key, Kinds
    <3>2. ASSUME NEW c \in Kinds PROVE store'[rows[c].ref.path] = rows[c].ref.hash
      <4>1. rows[c] \in [consent : {"active", "revoked"},
                         ref : [path : Keys, hash : Versions]]
        BY DEF TypeOK
      <4>2. rows[c].ref.hash \in Versions
        BY <4>1
      <4>3. rows[c].ref = Ref(c, rows[c].ref.hash)
            /\ store[rows[c].ref.path] = rows[c].ref.hash
        OBVIOUS
      <4>4. Ref(c, rows[c].ref.hash).path = Key(c, rows[c].ref.hash)
        BY DEF Ref
      <4> HIDE DEF StoreInv
      <4> QED
        BY <2>1, <4>2, <4>3, <4>4, StoredStays
    <3>3. ASSUME NEW p \in pending PROVE store'[Key(p[1], p[2])] = p[2]
      <4>1. p[1] \in Kinds /\ p[2] \in Versions
        BY DEF TypeOK
      <4> QED
        BY <2>1, <4>1, StoredStays
    <3>4. face # NoRef => store'[face.path] = face.hash
      <4> SUFFICES ASSUME face # NoRef PROVE store'[face.path] = face.hash
        OBVIOUS
      <4>1. face.hash \in Versions /\ face.path = Key("identity", face.hash)
        BY DEF Ref
      <4> QED
        BY <2>1, <4>1, StoredStays DEF Kinds
    <3> QED
      BY <3>1, <3>2, <3>3, <3>4
  <2>2. ASSUME NEW k \in Kinds, NEW v \in Versions, SeedWrites(k, v)
        PROVE  StoreInv'
    <3>1. store' = store /\ face' = face /\ pending' \subseteq pending
          /\ <<k, v>> \in pending
      BY <2>2 DEF SeedWrites
    <3>2. store[Key(k, v)] = v
      BY <3>1
    <3>3. rows' = [rows EXCEPT ![k] =
                     [consent |-> "active", ref |-> Ref(k, v)]]
      BY <2>2 DEF SeedWrites
    <3>4. \A c \in Kinds : /\ rows'[c].ref = Ref(c, rows'[c].ref.hash)
                           /\ store[rows'[c].ref.path] = rows'[c].ref.hash
      BY <3>2, <3>3 DEF Ref, TypeOK
    <3> QED
      BY <3>1, <3>4
  <2>3. ASSUME NEW k \in Kinds, NEW v \in Versions, SeedDies(k, v)
        PROVE  StoreInv'
    BY <2>3 DEF SeedDies, run
  <2>4. ASSUME NEW k \in Kinds, Withdraw(k)
        PROVE  StoreInv'
    <3>1. store' = store /\ face' = face /\ pending' = pending
      BY <2>4 DEF Withdraw, run
    <3>2. \A c \in Kinds : rows'[c].ref = rows[c].ref
      BY <2>4 DEF Withdraw, TypeOK
    <3> QED
      BY <3>1, <3>2
  <2>5. ASSUME NEW p, NEW n, FetchIdentity(p, n)
        PROVE  StoreInv'
    <3>1. rows' = rows /\ store' = store /\ pending' = pending
          /\ face' = rows["identity"].ref
      BY <2>5 DEF FetchIdentity, registry
    <3>2. "identity" \in Kinds /\ rows["identity"].ref.hash \in Versions
      BY DEF Kinds, TypeOK
    <3> QED
      BY <3>1, <3>2
  <2>6. CASE registry' = registry /\ face' = face
    BY <2>6 DEF registry
  <2> QED
    BY <2>1, <2>2, <2>3, <2>4, <2>5, <2>6
       DEF Next, Run, Owners, RefusedTry, Over, vars, run, Validate, ReadVoice,
           Speak, SpeakRaises, VoicePasses, VoiceFails, RenderPasses,
           RenderRaises, RenderFails
<1>3. TypeOK /\ StoreInv => ReferencesResolve
  BY DEF StoreInv, ReferencesResolve, Readable
<1> QED
  BY <1>1, <1>2, <1>3, TypeCorrect, PTL DEF Spec
-----------------------------------------------------------------------------
(* Consent *)

\* Where a run is when it has called a provider without consent: a voice is not
\* spoken with again, and a face is not rendered in another attempt.
LateInv ==
  /\ \A k \in Kinds : Active(k) => late[k] = 0
  /\ at \in {"check_identity", "check_voice", "fetch", "read_voice", "speak",
             "judge_voice"} => late["identity"] = 0
  /\ at = "render" => late["identity"] <= errors
  /\ late["identity"] <= 1 + errors
  /\ at \in {"check_identity", "check_voice", "fetch", "speak"}
       => late["voice"] = 0
  /\ late["voice"] <= 1

\* After a withdrawal the run speaks at most once more, and renders one attempt
\* at most: the next try, or the next attempt, finds no consent.
THEOREM WithdrawalHolds == Spec => []WithdrawalStopsProviders
<1> USE DEF Kinds, Active
<1>1. Init => LateInv
  BY DEF Init, LateInv
<1>2. TypeOK /\ LateInv /\ [Next]_vars => LateInv'
  <2> SUFFICES ASSUME TypeOK, LateInv, [Next]_vars PROVE LateInv'
    OBVIOUS
  <2> USE DEF LateInv, TypeOK
  <2>1. ASSUME NEW k \in Kinds, NEW v \in Versions, SeedStores(k, v)
        PROVE  LateInv'
    BY <2>1 DEF SeedStores, run, bounds
  <2>2. ASSUME NEW k \in Kinds, NEW v \in Versions, SeedWrites(k, v)
        PROVE  LateInv'
    BY <2>2 DEF SeedWrites
  <2>3. ASSUME NEW k \in Kinds, NEW v \in Versions, SeedDies(k, v)
        PROVE  LateInv'
    BY <2>3 DEF SeedDies, run, bounds
  <2>4. ASSUME NEW k \in Kinds, Withdraw(k)
        PROVE  LateInv'
    BY <2>4 DEF Withdraw, run
  <2>5. CASE \/ Validate("check_identity", "identity", "check_voice")
             \/ Validate("check_voice", "voice", "fetch")
    BY <2>5 DEF Validate, registry, bounds
  <2>6. CASE FetchIdentity("fetch", "read_voice") \/ FetchIdentity("refetch", "render")
    BY <2>6 DEF FetchIdentity, registry, bounds
  <2>7. CASE ReadVoice
    BY <2>7 DEF ReadVoice, registry, bounds
  <2>8. CASE Speak
    BY <2>8 DEF Speak, CountLate, registry, bounds
  <2>9. CASE SpeakRaises
    BY <2>9 DEF SpeakRaises, CountLate, registry
  <2>10. CASE VoicePasses
    BY <2>10 DEF VoicePasses, registry, bounds
  <2>11. CASE VoiceFails
    BY <2>11 DEF VoiceFails, Retry, registry
  <2>12. CASE RenderPasses
    BY <2>12 DEF RenderPasses, CountLate, registry, bounds
  <2>13. CASE RenderRaises
    BY <2>13 DEF RenderRaises, CountLate, registry
  <2>14. CASE RenderFails
    BY <2>14 DEF RenderFails, CountLate, Retry, registry
  <2>15. CASE UNCHANGED vars
    BY <2>15 DEF vars, registry, run, bounds
  <2> QED
    BY <2>1, <2>2, <2>3, <2>4, <2>5, <2>6, <2>7, <2>8, <2>9, <2>10, <2>11,
       <2>12, <2>13, <2>14, <2>15
       DEF Next, Run, Owners, RefusedTry, Over
<1>3. LateInv => WithdrawalStopsProviders
  BY DEF LateInv, WithdrawalStopsProviders
<1> QED
  BY <1>1, <1>2, <1>3, TypeCorrect, PTL DEF Spec
-----------------------------------------------------------------------------
(* Attempts *)

\* Every attempt beyond the first was paid for with a reseed or a miss; so is
\* the present one when the voice was reseeded after it had been read.
CostInv ==
  /\ at \in {"read_voice", "speak", "judge_voice", "render"}
       => seeds + misses >= attempt - 1
  /\ at \in {"speak", "judge_voice"} =>
       rows["voice"].ref.hash = speaker \/ seeds + misses >= attempt
  /\ at = "judge_voice" => speech = speaker
  /\ at = "refetch" => seeds + misses >= attempt
  /\ at = "failed" => seeds + misses >= RetryBudget

\* A run fails only after as many reseeds and misses as its budget.
THEOREM FailuresAreExplained == Spec => []MixedPairsNeedReseeds
<1> USE BudgetAssumption DEF Kinds
<1>1. Init => CostInv
  BY DEF Init, CostInv
<1>2. TypeInv /\ CostInv /\ [Next]_vars => CostInv'
  <2> SUFFICES ASSUME TypeInv, CostInv, [Next]_vars PROVE CostInv'
    OBVIOUS
  <2> USE DEF CostInv, TypeInv, TypeOK
  <2>1. ASSUME NEW k \in Kinds, NEW v \in Versions, SeedStores(k, v)
        PROVE  CostInv'
    BY <2>1 DEF SeedStores, run, bounds
  <2>2. ASSUME NEW k \in Kinds, NEW v \in Versions, SeedWrites(k, v)
        PROVE  CostInv'
    <3>1. /\ seeds' = seeds + 1 /\ misses' = misses /\ at' = at
          /\ attempt' = attempt /\ speaker' = speaker /\ speech' = speech
      BY <2>2 DEF SeedWrites
    <3>2. at \in {"speak", "judge_voice"} => seeds' + misses' >= attempt'
      BY <3>1
    <3> QED
      BY <3>1, <3>2
  <2>3. ASSUME NEW k \in Kinds, NEW v \in Versions, SeedDies(k, v)
        PROVE  CostInv'
    BY <2>3 DEF SeedDies, run, bounds
  <2>4. ASSUME NEW k \in Kinds, Withdraw(k)
        PROVE  CostInv'
    <3>1. rows'["voice"].ref = rows["voice"].ref
      BY <2>4 DEF Withdraw
    <3> QED
      BY <2>4, <3>1 DEF Withdraw, run
  <2>5. CASE \/ Validate("check_identity", "identity", "check_voice")
             \/ Validate("check_voice", "voice", "fetch")
    BY <2>5 DEF Validate, registry, bounds
  <2>6. CASE FetchIdentity("fetch", "read_voice") \/ FetchIdentity("refetch", "render")
    BY <2>6 DEF FetchIdentity, registry, bounds
  <2>7. CASE ReadVoice
    BY <2>7 DEF ReadVoice, registry, bounds
  <2>8. CASE Speak
    BY <2>8 DEF Speak, CountLate, registry, bounds
  <2>9. CASE SpeakRaises
    BY <2>9 DEF SpeakRaises, CountLate, registry
  <2>10. CASE VoicePasses
    BY <2>10 DEF VoicePasses, registry, bounds
  <2>11. CASE VoiceFails
    BY <2>11 DEF VoiceFails, Retry, SoundsRight, registry
  <2>12. CASE RenderPasses
    BY <2>12 DEF RenderPasses, CountLate, registry, bounds
  <2>13. CASE RenderRaises
    BY <2>13 DEF RenderRaises, CountLate, registry
  <2>14. CASE RenderFails
    BY <2>14 DEF RenderFails, CountLate, Retry, registry
  <2>15. CASE UNCHANGED vars
    BY <2>15 DEF vars, registry, run, bounds
  <2> QED
    BY <2>1, <2>2, <2>3, <2>4, <2>5, <2>6, <2>7, <2>8, <2>9, <2>10, <2>11,
       <2>12, <2>13, <2>14, <2>15
       DEF Next, Run, Owners, RefusedTry, Over
<1>3. CostInv => MixedPairsNeedReseeds
  BY DEF CostInv, MixedPairsNeedReseeds
<1> QED
  BY <1>1, <1>2, <1>3, Typing, PTL DEF Spec
=============================================================================
