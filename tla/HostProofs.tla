------------------------------- MODULE HostProofs -------------------------------
(***************************************************************************)
(* What a host keeps of uploads, sessions and sources, for every value of  *)
(* the constants: it stays within its limits, is listed without gap or     *)
(* repetition, and counts every use once.  And what every module that      *)
(* shares no state says of its types, limits of collections included: each *)
(* is part of an invariant of its module, or proved here beside it.        *)
(***************************************************************************)
EXTENDS RecordsProofs, ServicesProofs

-----------------------------------------------------------------------------
(* Attachments: uploads and the bytes of the cache.                          *)

\* The library's words are the same in every module.
LEMMA ATSizes == \A S : AT!Cardinality(S) = Cardinality(S) /\ (AT!IsFiniteSet(S) <=> IsFiniteSet(S))
BY DEF AT!Cardinality, Cardinality, AT!IsFiniteSet, IsFiniteSet

\* The bytes of some uploads of which each has so many.
Upto(us, f) == {b \in us \X (1 .. MaxFile) : b[2] <= f[b[1]]}

LEMMA BytesFinite ==
  ASSUME AT!AttachmentAssumption, NEW us, IsFiniteSet(us), NEW B, B \subseteq us \X (1 .. MaxFile)
  PROVE  IsFiniteSet(B) /\ Cardinality(B) \in Nat
<1>1. IsFiniteSet(1 .. MaxFile) BY FS_Interval DEF AT!AttachmentAssumption
<1>2. IsFiniteSet(us \X (1 .. MaxFile)) BY <1>1, FS_Product
<1>3. QED BY <1>2, FS_Subset, FS_CardinalityType

LEMMA BytesAdd ==
  ASSUME AT!AttachmentAssumption, NEW us, IsFiniteSet(us), NEW u, u \notin us, NEW f, f[u] \in 0 .. MaxFile
  PROVE  Cardinality(Upto(us \cup {u}, f)) = Cardinality(Upto(us, f)) + f[u]
<1>0. MaxFile \in Nat BY DEF AT!AttachmentAssumption
<1>01. PICK n \in 0 .. MaxFile : n = f[u] OBVIOUS
<1>1. PICK B : B = {u} \X (1 .. n) OBVIOUS
<1>2. IsFiniteSet(B) /\ Cardinality(B) = n
  <2>1. IsFiniteSet({u}) /\ Cardinality({u}) = 1 BY FS_Singleton
  <2>2. IsFiniteSet(1 .. n) /\ Cardinality(1 .. n) = n
    <3>1. 1 \in Int /\ n \in Int /\ n \in Nat BY <1>0
    <3>2. IsFiniteSet(1 .. n) /\ Cardinality(1 .. n) = IF 1 > n THEN 0 ELSE n - 1 + 1 BY <3>1, FS_Interval
    <3>3. QED BY <3>1, <3>2
  <2>3. IsFiniteSet(B) /\ Cardinality(B) = 1 * n BY ATSizes, <1>1, <2>1, <2>2, FS_Product
  <2>4. QED BY <2>3
<1>3. PICK A : A = Upto(us, f) OBVIOUS
<1>4. IsFiniteSet(A) /\ Cardinality(A) \in Nat BY <1>3, BytesFinite DEF Upto
<1>5. Upto(us \cup {u}, f) = A \cup B
  <2>1. ASSUME NEW b PROVE b \in Upto(us \cup {u}, f) <=> b \in A \cup B BY <1>0, <1>01, <1>1, <1>3 DEF Upto
  <2>2. QED BY <2>1
<1>6. A \cap B = {} BY <1>1, <1>3 DEF Upto
<1>7. Cardinality(A \cap B) = 0 BY <1>6, FS_EmptySet
<1>8. Cardinality(A \cup B) = Cardinality(A) + Cardinality(B) - Cardinality(A \cap B) BY <1>2, <1>4, FS_Union
<1>9. Cardinality(A \cup B) = Cardinality(A) + n BY <1>0, <1>2, <1>4, <1>7, <1>8
<1>10. QED BY <1>01, <1>3, <1>5, <1>9

LEMMA BytesMore ==
  ASSUME AT!AttachmentAssumption, NEW us, IsFiniteSet(us), NEW B, B \subseteq us \X (1 .. MaxFile), NEW A, A \subseteq B
  PROVE  Cardinality(A) <= Cardinality(B) /\ Cardinality(A) \in Nat /\ Cardinality(B) \in Nat
<1>1. IsFiniteSet(B) BY BytesFinite
<1>2. IsFiniteSet(A) /\ Cardinality(A) <= Cardinality(B) BY <1>1, FS_Subset
<1>3. QED BY <1>1, <1>2, FS_CardinalityType

\* What uploads have declared is in their files or counts as reserved.
LEMMA DeclaredCounted ==
  ASSUME AT!AttachmentAssumption, AT!CacheKept, NEW us \in SUBSET DOMAIN x1
  PROVE  /\ IsFiniteSet(us) /\ Cardinality(AT!Declared(us)) \in Nat /\ Cardinality(AT!Stored(us)) \in Nat
         /\ Cardinality(AT!Rest(us)) \in Nat
         /\ Cardinality(AT!Declared(us)) <= Cardinality(AT!Stored(us)) + Cardinality(AT!Rest(us))
         /\ Cardinality(AT!Stored(us)) <= Cardinality(AT!Declared(us))
<1>1. IsFiniteSet(us) BY ATSizes, FS_Subset DEF AT!CacheKept
<1>2. PICK D : D = AT!Declared(us) OBVIOUS
<1>3. PICK S : S = AT!Stored(us) OBVIOUS
<1>4. PICK R : R = AT!Rest(us) OBVIOUS
<1>5. /\ D \subseteq us \X (1 .. MaxFile) /\ S \subseteq us \X (1 .. MaxFile) /\ R \subseteq us \X (1 .. MaxFile)
  BY <1>2, <1>3, <1>4 DEF AT!Declared, AT!Stored, AT!Rest
<1>6. /\ IsFiniteSet(D) /\ IsFiniteSet(S) /\ IsFiniteSet(R) /\ Cardinality(D) \in Nat /\ Cardinality(S) \in Nat
      /\ Cardinality(R) \in Nat
  BY <1>1, <1>5, BytesFinite
<1>7. D \subseteq S \cup R
  <2>1. SUFFICES ASSUME NEW b \in D PROVE b \in S \cup R OBVIOUS
  <2>2. PICK u \in us, n \in 1 .. MaxFile : b = <<u, n>> /\ n <= x1[u].size BY <1>2 DEF AT!Declared
  <2>3. AT!UploadShape(u, x1[u]) BY DEF AT!CacheKept
  <2>4. x1[u].written \in Nat /\ x1[u].stored \in Nat /\ x1[u].written <= x1[u].stored
    BY <2>3 DEF AT!UploadShape
  <2>5. n <= x1[u].stored \/ x1[u].written < n BY <2>4, AT!AttachmentAssumption DEF AT!AttachmentAssumption
  <2>6. QED BY <1>3, <1>4, <2>2, <2>5 DEF AT!Stored, AT!Rest
<1>8. S \subseteq D
  <2>1. SUFFICES ASSUME NEW b \in S PROVE b \in D OBVIOUS
  <2>2. PICK u \in us, n \in 1 .. MaxFile : b = <<u, n>> /\ n <= x1[u].stored BY <1>3 DEF AT!Stored
  <2>3. AT!UploadShape(u, x1[u]) BY DEF AT!CacheKept
  <2>4. x1[u].size \in Nat /\ x1[u].stored \in Nat /\ x1[u].stored <= x1[u].size
    BY <2>3 DEF AT!UploadShape, AT!AttachmentAssumption
  <2>5. n <= x1[u].size BY <2>2, <2>4, AT!AttachmentAssumption DEF AT!AttachmentAssumption
  <2>6. QED BY <1>2, <2>2, <2>5 DEF AT!Declared
<1>9. /\ IsFiniteSet(S \cup R) /\ Cardinality(S \cup R) \in Nat
      /\ Cardinality(S \cup R) <= Cardinality(S) + Cardinality(R)
  <2>1. Cardinality(S \cup R) = Cardinality(S) + Cardinality(R) - Cardinality(S \cap R) /\ IsFiniteSet(S \cup R)
    BY <1>6, FS_Union
  <2>2. IsFiniteSet(S \cap R) BY <1>6, FS_Intersection
  <2>3. Cardinality(S \cap R) \in Nat /\ Cardinality(S \cup R) \in Nat BY <2>1, <2>2, FS_CardinalityType
  <2>4. QED BY <1>6, <2>1, <2>3
<1>10. Cardinality(D) <= Cardinality(S \cup R) BY <1>7, <1>9, FS_Subset
<1>11. Cardinality(S) <= Cardinality(D) BY <1>6, <1>8, FS_Subset
<1>12. Cardinality(D) <= Cardinality(S) + Cardinality(R) BY <1>6, <1>9, <1>10
<1>13. QED BY <1>1, <1>2, <1>3, <1>4, <1>6, <1>11, <1>12

LEMMA InitCache == ASSUME AT!AttachmentAssumption, AT!Init PROVE AT!CacheKept
<1>1. DOMAIN x1 = {} /\ x1 = [u \in DOMAIN x1 |-> x1[u]] BY DEF AT!Init
<1>2. IsFiniteSet(DOMAIN x1) /\ Cardinality(DOMAIN x1) = 0 BY <1>1, FS_EmptySet
<1>3. AT!Declared(DOMAIN x1) = {} BY <1>1 DEF AT!Declared
<1>4. Cardinality(AT!Declared(DOMAIN x1)) = 0 BY <1>3, FS_EmptySet
<1>5. {MaxCache, MaxEntries} \subseteq Nat BY DEF AT!AttachmentAssumption
<1>6. QED BY ATSizes, <1>1, <1>2, <1>4, <1>5 DEF AT!Init, AT!CacheKept

\* The declared bytes are those of the sizes.
LEMMA DeclaredIs ==
  ASSUME NEW us, NEW f, \A u \in us : f[u] = x1[u].size
  PROVE  AT!Declared(us) = Upto(us, f)
BY DEF AT!Declared, Upto

\* Some of the uploads go, and the sizes of the others stay.
LEMMA SomeGo ==
  ASSUME AT!AttachmentAssumption, AT!CacheKept, DOMAIN x1' \subseteq DOMAIN x1,
         x1' = [u \in DOMAIN x1' |-> x1'[u]],
         \A u \in DOMAIN x1' : x1'[u].size = x1[u].size /\ AT!UploadShape(u, x1[u])',
         x4' \in [Uploads -> {"new", "sending", "failed", "gone", "done"}], UNCHANGED <<x2, x3>>
  PROVE  AT!CacheKept'
<1>1. PICK D : D = DOMAIN x1 OBVIOUS
<1>2. PICK E : E = DOMAIN x1' OBVIOUS
<1>3. IsFiniteSet(D) /\ E \subseteq D BY ATSizes, <1>1, <1>2 DEF AT!CacheKept
<1>4. IsFiniteSet(E) /\ Cardinality(E) <= Cardinality(D) BY <1>3, FS_Subset
<1>5. Cardinality(E) \in Nat /\ Cardinality(D) \in Nat BY <1>3, <1>4, FS_CardinalityType
<1>6. PICK A : A = AT!Declared(D) OBVIOUS
<1>7. PICK B : B = AT!Declared(E)' OBVIOUS
<1>8. B \subseteq A BY <1>2, <1>3, <1>6, <1>7 DEF AT!Declared
<1>9. A \subseteq D \X (1 .. MaxFile) BY <1>6 DEF AT!Declared
<1>10. Cardinality(B) <= Cardinality(A) /\ Cardinality(A) \in Nat /\ Cardinality(B) \in Nat BY <1>3, <1>8, <1>9, BytesMore
<1>11. x2 + Cardinality(A) <= MaxCache /\ x3 + Cardinality(D) <= MaxEntries + 1 /\ x2 \in Nat /\ x3 \in Nat
  BY ATSizes, <1>1, <1>6 DEF AT!CacheKept
<1>12. {MaxCache, MaxEntries} \subseteq Nat BY DEF AT!AttachmentAssumption
<1>13. x2 + Cardinality(B) <= MaxCache /\ x3 + Cardinality(E) <= MaxEntries + 1 BY <1>4, <1>5, <1>10, <1>11, <1>12
<1>14. AT!Declared(DOMAIN x1)' = B BY <1>2, <1>7 DEF AT!Declared
<1>15. E \subseteq Uploads BY <1>1, <1>3 DEF AT!CacheKept
<1>16. \A u \in DOMAIN x1' : AT!UploadShape(u, x1[u])' OBVIOUS
<1>17. QED BY ATSizes, <1>2, <1>4, <1>11, <1>13, <1>14, <1>15, <1>16 DEF AT!CacheKept

LEMMA ClientMoves ==
  ASSUME AT!CacheKept, NEW u \in Uploads, NEW phase \in {"sending", "failed", "gone", "done"}, AT!Moves(u, phase)
  PROVE  /\ x4' \in [Uploads -> {"new", "sending", "failed", "gone", "done"}] /\ x4'[u] = phase
         /\ \A v \in Uploads : v # u => x4'[v] = x4[v]
BY DEF AT!CacheKept, AT!Moves

\* Uploads that stay as they are while their client does not begin again.
LEMMA UploadsStay ==
  ASSUME AT!CacheKept, NEW us \in SUBSET DOMAIN x1, x1' = AT!Keep(us),
         \A u \in us : x4'[u] # "new" /\ (x4'[u] = "sending" => x4[u] = "sending")
  PROVE  /\ DOMAIN x1' = us /\ x1' = [u \in DOMAIN x1' |-> x1'[u]]
         /\ \A u \in DOMAIN x1' : x1'[u].size = x1[u].size /\ AT!UploadShape(u, x1[u])'
<1>1. DOMAIN x1' = us /\ x1' = [u \in us |-> x1[u]] /\ \A u \in us : x1'[u] = x1[u] BY DEF AT!Keep
<1>2. ASSUME NEW u \in us PROVE AT!UploadShape(u, x1[u])'
  <2>1. AT!UploadShape(u, x1[u]) /\ x1'[u] = x1[u] BY <1>1 DEF AT!CacheKept
  <2>2. QED BY <2>1 DEF AT!UploadShape
<1>3. QED BY <1>1, <1>2

LEMMA KeptAll == ASSUME AT!CacheKept PROVE x1 = AT!Keep(DOMAIN x1)
BY DEF AT!CacheKept, AT!Keep

LEMMA UploadGoes ==
  ASSUME AT!AttachmentAssumption, AT!CacheKept, NEW u \in Uploads, AT!FinishFails(u) \/ AT!Abort(u) \/ AT!AbortLost(u) \/ AT!GivesUp(u)
  PROVE  AT!CacheKept'
<1>1. PICK us \in SUBSET DOMAIN x1, phase \in {"failed", "gone"} :
        x1' = AT!Keep(us) /\ AT!Moves(u, phase) /\ UNCHANGED <<x2, x3>>
  BY KeptAll DEF AT!FinishFails, AT!Abort, AT!AbortLost, AT!GivesUp
<1>2. /\ x4' \in [Uploads -> {"new", "sending", "failed", "gone", "done"}] /\ x4'[u] = phase
      /\ \A v \in Uploads : v # u => x4'[v] = x4[v]
  BY <1>1, ClientMoves
<1>3. \A v \in us : x4'[v] # "new" /\ (x4'[v] = "sending" => x4[v] = "sending")
  BY <1>1, <1>2 DEF AT!CacheKept, AT!UploadShape
<1>4. QED BY <1>1, <1>2, <1>3, UploadsStay, SomeGo

\* One upload changes, and its size stays.
LEMMA UploadChanges ==
  ASSUME AT!AttachmentAssumption, AT!CacheKept, NEW u \in DOMAIN x1, NEW p, x1' = [x1 EXCEPT ![u] = p],
         p.size = x1[u].size, x4'[u] \in {"sending", "failed", x4[u]},
         x4' \in [Uploads -> {"new", "sending", "failed", "gone", "done"}],
         \A v \in Uploads : v # u => x4'[v] = x4[v],
         p.written \in Nat, p.stored \in Nat, p.fresh \in BOOLEAN, p.written <= p.stored, p.stored <= p.size,
         p = [size |-> p.size, written |-> p.written, stored |-> p.stored, fresh |-> p.fresh],
         x4'[u] = "sending" => p.stored = p.written, UNCHANGED <<x2, x3>>
  PROVE  AT!CacheKept'
<1>1. /\ DOMAIN x1' = DOMAIN x1 /\ x1' = [v \in DOMAIN x1' |-> x1'[v]] /\ x1'[u] = p
      /\ \A v \in DOMAIN x1 : v # u => x1'[v] = x1[v]
  BY DEF AT!CacheKept
<1>2. \A v \in DOMAIN x1 : v \in Uploads /\ AT!UploadShape(v, x1[v]) BY DEF AT!CacheKept
<1>3. ASSUME NEW v \in DOMAIN x1 PROVE x1'[v].size = x1[v].size /\ AT!UploadShape(v, x1[v])'
  <2>1. CASE v = u BY <1>1, <1>2, <2>1 DEF AT!UploadShape
  <2>2. CASE v # u BY <1>1, <1>2, <2>2 DEF AT!UploadShape
  <2>3. QED BY <2>1, <2>2
<1>4. QED BY <1>1, <1>3, SomeGo

LEMMA ChunksKept ==
  ASSUME AT!AttachmentAssumption, AT!CacheKept, NEW u \in Uploads, NEW n \in 1 .. MaxFile, AT!Chunk(u, n) \/ AT!ChunkFails(u, n)
  PROVE  AT!CacheKept'
<1>0. n \in Nat /\ MaxFile \in Nat BY DEF AT!AttachmentAssumption
<1>1. x4[u] = "sending" /\ UNCHANGED <<x2, x3>> BY DEF AT!Chunk, AT!ChunkFails
<1>2. CASE AT!Chunk(u, n) /\ ~AT!Takes(u, n)
  <2>1. x1' = AT!Keep(DOMAIN x1) /\ AT!Moves(u, "failed") BY <1>2, KeptAll DEF AT!Chunk
  <2>2. /\ x4' \in [Uploads -> {"new", "sending", "failed", "gone", "done"}] /\ x4'[u] = "failed"
        /\ \A v \in Uploads : v # u => x4'[v] = x4[v]
    BY <2>1, ClientMoves
  <2>3. \A v \in DOMAIN x1 : x4'[v] # "new" /\ (x4'[v] = "sending" => x4[v] = "sending")
    BY <2>2 DEF AT!CacheKept, AT!UploadShape
  <2>4. QED BY <1>1, <2>1, <2>2, <2>3, UploadsStay, SomeGo
<1>3. CASE AT!Chunk(u, n) /\ AT!Takes(u, n)
  <2>1. u \in DOMAIN x1 /\ x1[u].written + n <= x1[u].size BY <1>3 DEF AT!Takes
  <2>2. AT!UploadShape(u, x1[u]) BY <2>1 DEF AT!CacheKept
  <2>3. PICK p : p = [size |-> x1[u].size, written |-> x1[u].written + n,
                      stored |-> x1[u].stored + n, fresh |-> x1[u].fresh]
    OBVIOUS
  <2>4. x1' = [x1 EXCEPT ![u] = p]
    <3>1. x1' = [x1 EXCEPT ![u].written = @ + n, ![u].stored = @ + n] BY <1>3 DEF AT!Chunk
    <3>2. PICK q : q = x1[u] OBVIOUS
    <3>3. q = [size |-> q.size, written |-> q.written, stored |-> q.stored, fresh |-> q.fresh]
      BY <2>2, <3>2 DEF AT!UploadShape
    <3>4. [[q EXCEPT !.written = @ + n] EXCEPT !.stored = @ + n] = p
      <4>1. PICK w : w = q.written + n OBVIOUS
      <4>2. PICK s : s = q.stored + n OBVIOUS
      <4>3. PICK e : e = [q EXCEPT !.written = w] OBVIOUS
      <4>4. e = [size |-> q.size, written |-> w, stored |-> q.stored, fresh |-> q.fresh] BY <3>3, <4>3
      <4>5. e.stored = q.stored BY <4>4
      <4>6. [e EXCEPT !.stored = s] = [size |-> q.size, written |-> w, stored |-> s, fresh |-> q.fresh] BY <4>4
      <4>7. QED BY <2>3, <3>2, <4>1, <4>2, <4>3, <4>5, <4>6
    <3>5. x1' = [x1 EXCEPT ![u] = [[q EXCEPT !.written = @ + n] EXCEPT !.stored = @ + n]]
      BY <2>1, <3>1, <3>2 DEF AT!CacheKept
    <3>6. QED BY <3>4, <3>5
  <2>5. x4' = x4 BY <1>3 DEF AT!Chunk
  <2>6. /\ p.size = x1[u].size /\ p.written = x1[u].written + n /\ p.stored = x1[u].stored + n
        /\ p.fresh = x1[u].fresh
        /\ p = [size |-> p.size, written |-> p.written, stored |-> p.stored, fresh |-> p.fresh]
    BY <2>3
  <2>7. /\ x1[u].written \in Nat /\ x1[u].stored \in Nat /\ x1[u].size \in Nat
        /\ x1[u].stored = x1[u].written /\ p.fresh \in BOOLEAN
    BY <1>0, <1>1, <2>2, <2>6 DEF AT!UploadShape
  <2>8. p.written \in Nat /\ p.stored \in Nat /\ p.written <= p.stored /\ p.stored <= p.size /\ p.stored = p.written
    BY <1>0, <2>1, <2>6, <2>7
  <2>9. QED BY <1>1, <2>1, <2>4, <2>5, <2>6, <2>7, <2>8, UploadChanges DEF AT!CacheKept
<1>4. CASE AT!ChunkFails(u, n)
  <2>1. u \in DOMAIN x1 /\ x1[u].written + (n + 1) <= x1[u].size BY <1>4 DEF AT!ChunkFails, AT!Takes
  <2>2. AT!UploadShape(u, x1[u]) BY <2>1 DEF AT!CacheKept
  <2>3. PICK p : p = [size |-> x1[u].size, written |-> x1[u].written,
                      stored |-> x1[u].stored + n, fresh |-> x1[u].fresh]
    OBVIOUS
  <2>4. x1' = [x1 EXCEPT ![u] = p]
    <3>1. x1' = [x1 EXCEPT ![u].stored = @ + n] BY <1>4 DEF AT!ChunkFails
    <3>2. PICK q : q = x1[u] OBVIOUS
    <3>3. q = [size |-> q.size, written |-> q.written, stored |-> q.stored, fresh |-> q.fresh]
      BY <2>2, <3>2 DEF AT!UploadShape
    <3>4. [q EXCEPT !.stored = @ + n] = p BY <2>3, <3>2, <3>3
    <3>5. x1' = [x1 EXCEPT ![u] = [q EXCEPT !.stored = @ + n]] BY <2>1, <3>1, <3>2 DEF AT!CacheKept
    <3>6. QED BY <3>4, <3>5
  <2>5. AT!Moves(u, "failed") BY <1>4 DEF AT!ChunkFails
  <2>50. /\ x4' \in [Uploads -> {"new", "sending", "failed", "gone", "done"}] /\ x4'[u] = "failed"
         /\ \A v \in Uploads : v # u => x4'[v] = x4[v]
    BY <2>5, ClientMoves
  <2>6. /\ p.size = x1[u].size /\ p.written = x1[u].written /\ p.stored = x1[u].stored + n
        /\ p.fresh = x1[u].fresh
        /\ p = [size |-> p.size, written |-> p.written, stored |-> p.stored, fresh |-> p.fresh]
    BY <2>3
  <2>7. /\ x1[u].written \in Nat /\ x1[u].stored \in Nat /\ x1[u].size \in Nat
        /\ x1[u].stored = x1[u].written /\ p.fresh \in BOOLEAN
    BY <1>0, <1>1, <2>2, <2>6 DEF AT!UploadShape
  <2>8. p.written \in Nat /\ p.stored \in Nat /\ p.written <= p.stored /\ p.stored <= p.size
    BY <1>0, <2>1, <2>6, <2>7
  <2>9. QED BY <1>1, <2>1, <2>4, <2>50, <2>6, <2>7, <2>8, UploadChanges
<1>5. QED BY <1>2, <1>3, <1>4

LEMMA ExpireKept ==
  ASSUME AT!AttachmentAssumption, AT!CacheKept, NEW u \in Uploads, AT!Expire(u)
  PROVE  AT!CacheKept'
<1>1. /\ u \in DOMAIN x1 /\ x1' = [x1 EXCEPT ![u].fresh = FALSE] /\ UNCHANGED <<x2, x3, x4>>
  BY DEF AT!Expire, AT!Alive
<1>2. AT!UploadShape(u, x1[u]) BY <1>1 DEF AT!CacheKept
<1>3. PICK p : p = [size |-> x1[u].size, written |-> x1[u].written, stored |-> x1[u].stored, fresh |-> FALSE]
  OBVIOUS
<1>4. x1' = [x1 EXCEPT ![u] = p]
  <2>1. PICK q : q = x1[u] OBVIOUS
  <2>2. q = [size |-> q.size, written |-> q.written, stored |-> q.stored, fresh |-> q.fresh] BY <1>2, <2>1 DEF AT!UploadShape
  <2>3. [q EXCEPT !.fresh = FALSE] = p
    <3>1. PICK no : no = FALSE OBVIOUS
    <3>2. [q EXCEPT !.fresh = no] = [size |-> q.size, written |-> q.written, stored |-> q.stored, fresh |-> no] BY <2>2
    <3>3. QED BY <1>3, <2>1, <3>1, <3>2, Zenon
  <2>4. x1' = [x1 EXCEPT ![u] = [q EXCEPT !.fresh = FALSE]] BY <1>1, <2>1 DEF AT!CacheKept
  <2>5. QED BY <2>3, <2>4
<1>5. /\ p.size = x1[u].size /\ p.written = x1[u].written /\ p.stored = x1[u].stored /\ p.fresh = FALSE
      /\ p = [size |-> p.size, written |-> p.written, stored |-> p.stored, fresh |-> p.fresh]
  BY <1>3
<1>6. /\ p.written \in Nat /\ p.stored \in Nat /\ p.fresh \in BOOLEAN /\ p.written <= p.stored /\ p.stored <= p.size
      /\ x4[u] = "sending" => p.stored = p.written
  BY <1>2, <1>5 DEF AT!UploadShape
<1>7. QED BY <1>1, <1>4, <1>5, <1>6, UploadChanges DEF AT!CacheKept

LEMMA BeginKept ==
  ASSUME AT!AttachmentAssumption, AT!CacheKept, NEW u \in Uploads, NEW size \in 0 .. (MaxFile + 1), AT!Begin(u, size)
  PROVE  AT!CacheKept'
<1>1. x4[u] = "new" /\ UNCHANGED <<x2, x3>> BY DEF AT!Begin
<1>2. u \notin DOMAIN x1 /\ AT!Alive \subseteq DOMAIN x1 /\ \A v \in AT!Alive : v \in Uploads /\ v # u
  BY <1>1 DEF AT!CacheKept, AT!UploadShape, AT!Alive
<1>3. CASE ~AT!Admits(size)
  <2>1. x1' = AT!Keep(AT!Alive) /\ AT!Moves(u, "gone") BY <1>3 DEF AT!Begin
  <2>2. /\ x4' \in [Uploads -> {"new", "sending", "failed", "gone", "done"}] /\ x4'[u] = "gone"
        /\ \A v \in Uploads : v # u => x4'[v] = x4[v]
    BY <2>1, ClientMoves
  <2>3. \A v \in AT!Alive : x4'[v] # "new" /\ (x4'[v] = "sending" => x4[v] = "sending")
    BY <1>2, <2>2 DEF AT!CacheKept, AT!UploadShape
  <2>4. QED BY <1>1, <1>2, <2>1, <2>2, <2>3, UploadsStay, SomeGo
<1>4. CASE AT!Admits(size)
  <2>1. PICK p : p = [size |-> size, written |-> 0, stored |-> 0, fresh |-> TRUE] OBVIOUS
  <2>2. x1' = [v \in AT!Alive \cup {u} |-> IF v = u THEN p ELSE x1[v]] /\ AT!Moves(u, "sending")
    BY <1>4, <2>1 DEF AT!Begin
  <2>3. /\ x4' \in [Uploads -> {"new", "sending", "failed", "gone", "done"}] /\ x4'[u] = "sending"
        /\ \A v \in Uploads : v # u => x4'[v] = x4[v]
    BY <2>2, ClientMoves
  <2>4. /\ size <= MaxFile /\ x3 + Cardinality(AT!Alive) <= MaxEntries
        /\ x2 + Cardinality(AT!Stored(AT!Alive)) + Cardinality(AT!Rest(AT!Alive)) + size <= MaxCache
    BY ATSizes, <1>4 DEF AT!Admits, AT!Used, AT!Reserved, AT!ReservedRest
  <2>5. MaxFile \in Nat /\ MaxCache \in Nat /\ MaxEntries \in Nat BY DEF AT!AttachmentAssumption
  <2>6. size \in 0 .. MaxFile BY <2>4, <2>5
  <2>7. /\ DOMAIN x1' = AT!Alive \cup {u} /\ x1' = [v \in DOMAIN x1' |-> x1'[v]] /\ x1'[u] = p
        /\ \A v \in AT!Alive : x1'[v] = x1[v]
    BY <1>2, <2>2
  <2>8. PICK A : A = AT!Alive OBVIOUS
  <2>9. /\ IsFiniteSet(A) /\ Cardinality(AT!Declared(A)) \in Nat /\ Cardinality(AT!Stored(A)) \in Nat
        /\ Cardinality(AT!Rest(A)) \in Nat
        /\ Cardinality(AT!Declared(A)) <= Cardinality(AT!Stored(A)) + Cardinality(AT!Rest(A))
    BY <1>2, <2>8, DeclaredCounted
  <2>10. PICK f : f = [v \in A \cup {u} |-> x1'[v].size] OBVIOUS
  <2>11. f[u] = size /\ \A v \in A : f[v] = x1[v].size BY <1>2, <2>1, <2>7, <2>8, <2>10
  <2>12. AT!Declared(A) = Upto(A, f) BY <2>11, DeclaredIs
  <2>13. u \notin A BY <1>2, <2>8
  <2>14. Cardinality(Upto(A \cup {u}, f)) = Cardinality(Upto(A, f)) + size
    BY <2>6, <2>9, <2>11, <2>13, BytesAdd
  <2>15. AT!Declared(DOMAIN x1)' = Upto(A \cup {u}, f)
    BY <2>7, <2>8, <2>10 DEF AT!Declared, Upto
  <2>16. x2 + Cardinality(AT!Declared(DOMAIN x1)') <= MaxCache
    <3>1. x2 \in Nat BY DEF AT!CacheKept
    <3>2. PICK d : d = Cardinality(AT!Declared(A)) OBVIOUS
    <3>3. PICK s : s = Cardinality(AT!Stored(A)) OBVIOUS
    <3>4. PICK r : r = Cardinality(AT!Rest(A)) OBVIOUS
    <3>5. d \in Nat /\ s \in Nat /\ r \in Nat /\ d <= s + r /\ x2 + s + r + size <= MaxCache
      BY <2>4, <2>8, <2>9, <3>2, <3>3, <3>4
    <3>6. x2 + (d + size) <= MaxCache BY <2>5, <2>6, <3>1, <3>5
    <3>7. Cardinality(AT!Declared(DOMAIN x1)') = d + size BY <2>12, <2>14, <2>15, <3>2
    <3>8. QED BY <3>6, <3>7
  <2>17. /\ IsFiniteSet(DOMAIN x1') /\ x3 + Cardinality(DOMAIN x1') <= MaxEntries + 1
    <3>1. IsFiniteSet(A \cup {u}) /\ Cardinality(A \cup {u}) = Cardinality(A) + 1 BY <2>9, <2>13, FS_AddElement
    <3>2. Cardinality(A) \in Nat /\ x3 \in Nat BY <2>9, FS_CardinalityType DEF AT!CacheKept
    <3>3. x3 + Cardinality(A) <= MaxEntries BY <2>4, <2>8
    <3>4. x3 + (Cardinality(A) + 1) <= MaxEntries + 1 BY <2>5, <3>2, <3>3
    <3>5. QED BY <2>7, <2>8, <3>1, <3>4
  <2>18. \A v \in DOMAIN x1' : AT!UploadShape(v, x1[v])'
    <3>1. SUFFICES ASSUME NEW v \in DOMAIN x1' PROVE AT!UploadShape(v, x1[v])' OBVIOUS
    <3>2. CASE v = u
      <4>1. /\ p.size = size /\ p.written = 0 /\ p.stored = 0 /\ p.fresh = TRUE
            /\ p = [size |-> p.size, written |-> p.written, stored |-> p.stored, fresh |-> p.fresh]
        BY <2>1
      <4>2. p.size \in 0 .. MaxFile /\ p.written \in Nat /\ p.stored \in Nat /\ p.fresh \in BOOLEAN /\ 0 <= p.size
        <5>1. p.fresh \in BOOLEAN BY <4>1, Zenon
        <5>2. p.size \in 0 .. MaxFile /\ p.written \in Nat /\ p.stored \in Nat BY <2>5, <2>6, <4>1
        <5>3. 0 <= p.size BY <2>5, <5>2
        <5>4. QED BY <5>1, <5>2, <5>3
      <4>3. QED BY <2>3, <2>7, <3>2, <4>1, <4>2 DEF AT!UploadShape
    <3>3. CASE v # u
      <4>1. v \in AT!Alive /\ v \in DOMAIN x1 BY <1>2, <2>7, <3>3
      <4>2. AT!UploadShape(v, x1[v]) /\ x1'[v] = x1[v] /\ x4'[v] = x4[v]
        BY <1>2, <2>3, <2>7, <4>1 DEF AT!CacheKept
      <4>3. QED BY <4>2 DEF AT!UploadShape
    <3>4. QED BY <3>2, <3>3
  <2>19. DOMAIN x1' \subseteq Uploads BY <1>2, <2>7
  <2>20. QED BY ATSizes, <1>1, <2>3, <2>7, <2>16, <2>17, <2>18, <2>19 DEF AT!CacheKept
<1>5. QED BY <1>3, <1>4

LEMMA FinishKept ==
  ASSUME AT!AttachmentAssumption, AT!CacheKept, NEW u \in Uploads, AT!Finish(u)
  PROVE  AT!CacheKept'
<1>1. x4[u] = "sending" BY DEF AT!Finish
<1>2. CASE ~(u \in DOMAIN x1 /\ x1[u].fresh /\ x1[u].written = x1[u].size)
  <2>1. x1' = AT!Keep(DOMAIN x1) /\ AT!Moves(u, "failed") /\ UNCHANGED <<x2, x3>>
    BY <1>2, KeptAll DEF AT!Finish
  <2>2. /\ x4' \in [Uploads -> {"new", "sending", "failed", "gone", "done"}] /\ x4'[u] = "failed"
        /\ \A v \in Uploads : v # u => x4'[v] = x4[v]
    BY <2>1, ClientMoves
  <2>3. \A v \in DOMAIN x1 : x4'[v] # "new" /\ (x4'[v] = "sending" => x4[v] = "sending")
    BY <2>2 DEF AT!CacheKept, AT!UploadShape
  <2>4. QED BY <2>1, <2>2, <2>3, UploadsStay, SomeGo
<1>3. CASE u \in DOMAIN x1 /\ x1[u].fresh /\ x1[u].written = x1[u].size
  <2>1. /\ x1' = AT!Keep(DOMAIN x1 \ {u}) /\ AT!Moves(u, "done") /\ x2' = x2 + x1[u].stored
        /\ x3' = x3 + 1
    BY <1>3 DEF AT!Finish
  <2>2. /\ x4' \in [Uploads -> {"new", "sending", "failed", "gone", "done"}] /\ x4'[u] = "done"
        /\ \A v \in Uploads : v # u => x4'[v] = x4[v]
    BY <2>1, ClientMoves
  <2>3. PICK E : E = DOMAIN x1 \ {u} OBVIOUS
  <2>4. \A v \in E : x4'[v] # "new" /\ (x4'[v] = "sending" => x4[v] = "sending")
    BY <2>2, <2>3 DEF AT!CacheKept, AT!UploadShape
  <2>5. /\ DOMAIN x1' = E /\ x1' = [v \in DOMAIN x1' |-> x1'[v]]
        /\ \A v \in DOMAIN x1' : x1'[v].size = x1[v].size /\ AT!UploadShape(v, x1[v])'
    BY <2>1, <2>3, <2>4, UploadsStay
  <2>6. DOMAIN x1 = E \cup {u} /\ u \notin E BY <1>3, <2>3
  <2>7. IsFiniteSet(E) /\ Cardinality(DOMAIN x1) = Cardinality(E) + 1 /\ Cardinality(E) \in Nat
    <3>1. IsFiniteSet(E) BY ATSizes, <2>6, FS_Subset DEF AT!CacheKept
    <3>2. QED BY <2>6, <3>1, FS_AddElement, FS_CardinalityType
  <2>8. AT!UploadShape(u, x1[u]) BY <1>3 DEF AT!CacheKept
  <2>9. PICK f : f = [v \in DOMAIN x1 |-> x1[v].size] OBVIOUS
  <2>10. f[u] \in 0 .. MaxFile /\ f[u] = x1[u].size BY <1>3, <2>8, <2>9 DEF AT!UploadShape
  <2>11. AT!Declared(DOMAIN x1) = Upto(E \cup {u}, f) BY <2>6, <2>9, DeclaredIs
  <2>12. AT!Declared(DOMAIN x1)' = Upto(E, f) BY <2>5, <2>6, <2>9 DEF AT!Declared, Upto
  <2>13. Cardinality(Upto(E \cup {u}, f)) = Cardinality(Upto(E, f)) + f[u] BY <2>6, <2>7, <2>10, BytesAdd
  <2>14. IsFiniteSet(Upto(E, f)) /\ Cardinality(Upto(E, f)) \in Nat BY <2>7, BytesFinite DEF Upto
  <2>15. x2' + Cardinality(AT!Declared(DOMAIN x1)') <= MaxCache /\ x2' \in Nat
    <3>1. PICK d : d = Cardinality(Upto(E, f)) OBVIOUS
    <3>2. x2 + (d + f[u]) <= MaxCache /\ x2 \in Nat /\ d \in Nat BY ATSizes, <2>11, <2>13, <2>14, <3>1 DEF AT!CacheKept
    <3>3. /\ x1[u].stored \in Nat /\ x1[u].stored <= f[u] /\ f[u] \in Nat /\ MaxCache \in Nat
      BY <2>8, <2>10 DEF AT!UploadShape, AT!AttachmentAssumption
    <3>4. (x2 + x1[u].stored) + d <= MaxCache BY <3>2, <3>3
    <3>5. QED BY <2>1, <2>12, <3>1, <3>2, <3>3, <3>4
  <2>16. x3' + Cardinality(DOMAIN x1') <= MaxEntries + 1 /\ x3' \in Nat
    <3>1. x3 \in Nat /\ x3 + (Cardinality(E) + 1) <= MaxEntries + 1 /\ MaxEntries \in Nat
      BY ATSizes, <2>7 DEF AT!CacheKept, AT!AttachmentAssumption
    <3>2. (x3 + 1) + Cardinality(E) <= MaxEntries + 1 BY <2>7, <3>1
    <3>3. QED BY <2>1, <2>5, <3>1, <3>2
  <2>17. DOMAIN x1' \subseteq Uploads BY <2>5, <2>6 DEF AT!CacheKept
  <2>18. QED BY ATSizes, <2>2, <2>5, <2>7, <2>15, <2>16, <2>17 DEF AT!CacheKept
<1>4. QED BY <1>2, <1>3

LEMMA CrashKept == ASSUME AT!AttachmentAssumption, AT!CacheKept, AT!Crash PROVE AT!CacheKept'
<1>1. /\ x2' = x2 + Cardinality(AT!Stored(DOMAIN x1)) /\ x3' = x3 + Cardinality(DOMAIN x1)
      /\ x1' = [u \in {} |-> 0] /\ x4' = x4
  BY ATSizes DEF AT!Crash
<1>2. DOMAIN x1' = {} /\ x1' = [u \in DOMAIN x1' |-> x1'[u]] BY <1>1
<1>3. IsFiniteSet(DOMAIN x1') /\ Cardinality(DOMAIN x1') = 0 BY <1>2, FS_EmptySet
<1>4. AT!Declared(DOMAIN x1)' = {} BY <1>2 DEF AT!Declared
<1>5. Cardinality(AT!Declared(DOMAIN x1)') = 0 BY <1>4, FS_EmptySet
<1>6. PICK d : d = Cardinality(AT!Declared(DOMAIN x1)) OBVIOUS
<1>7. PICK s : s = Cardinality(AT!Stored(DOMAIN x1)) OBVIOUS
<1>8. d \in Nat /\ s \in Nat /\ s <= d BY <1>6, <1>7, DeclaredCounted
<1>9. x2 + d <= MaxCache /\ x2 \in Nat /\ x3 \in Nat /\ MaxCache \in Nat /\ MaxEntries \in Nat
  BY ATSizes, <1>6 DEF AT!CacheKept, AT!AttachmentAssumption
<1>10. x2' \in Nat /\ x2' + 0 <= MaxCache BY <1>1, <1>7, <1>8, <1>9
<1>11. x3' \in Nat /\ x3' + 0 <= MaxEntries + 1
  <2>1. Cardinality(DOMAIN x1) \in Nat BY ATSizes, FS_CardinalityType DEF AT!CacheKept
  <2>2. x3 + Cardinality(DOMAIN x1) <= MaxEntries + 1 BY ATSizes DEF AT!CacheKept
  <2>3. QED BY <1>1, <1>9, <2>1, <2>2
<1>12. QED BY ATSizes, <1>1, <1>2, <1>3, <1>5, <1>10, <1>11 DEF AT!CacheKept

LEMMA NextCache == ASSUME AT!AttachmentAssumption, AT!CacheKept, [AT!Next]_(AT!vars) PROVE AT!CacheKept'
<1>1. CASE UNCHANGED AT!vars BY <1>1 DEF AT!vars, AT!CacheKept, AT!Declared, AT!UploadShape
<1>2. ASSUME NEW u \in Uploads, \/ \E size \in 0 .. MaxFile + 1 : AT!Begin(u, size)
                                \/ \E n \in 1 .. MaxFile : AT!Chunk(u, n) \/ AT!ChunkFails(u, n)
                                \/ AT!Finish(u) \/ AT!Expire(u)
      PROVE  AT!CacheKept'
  BY <1>2, BeginKept, ChunksKept, FinishKept, ExpireKept
<1>3. ASSUME NEW u \in Uploads, AT!FinishFails(u) \/ AT!Abort(u) \/ AT!AbortLost(u) \/ AT!GivesUp(u) PROVE AT!CacheKept'
  BY <1>3, UploadGoes
<1>4. QED BY <1>1, <1>2, <1>3, CrashKept DEF AT!Next

LEMMA CacheWithin == ASSUME AT!AttachmentAssumption, AT!CacheKept PROVE AT!CacheBounded /\ AT!TypeOK
<1>1. PICK d : d = Cardinality(AT!Declared(DOMAIN x1)) OBVIOUS
<1>2. PICK s : s = Cardinality(AT!Stored(DOMAIN x1)) OBVIOUS
<1>3. d \in Nat /\ s \in Nat /\ s <= d BY <1>1, <1>2, DeclaredCounted
<1>4. x2 + d <= MaxCache /\ x2 \in Nat /\ MaxCache \in Nat BY ATSizes, <1>1 DEF AT!CacheKept, AT!AttachmentAssumption
<1>5. x2 + s <= MaxCache BY <1>3, <1>4
<1>6. AT!CacheBounded BY ATSizes, <1>2, <1>5 DEF AT!CacheBounded, AT!CacheKept
<1>7. QED BY <1>6 DEF AT!TypeOK, AT!CacheKept, AT!UploadShape

-----------------------------------------------------------------------------
(* Catalog: recent sessions, page by page.                                   *)

\* The library's words are the same in every module.
LEMMA CTSizes == \A S : CT!Cardinality(S) = Cardinality(S) /\ (CT!IsFiniteSet(S) <=> IsFiniteSet(S))
BY DEF CT!Cardinality, Cardinality, CT!IsFiniteSet, IsFiniteSet

\* Among some sessions one is below all others.
LEMMA LowestSession ==
  ASSUME CT!CatalogAssumption, CT!CatalogKept, NEW ss, ss \subseteq DOMAIN x2, ss # {}
  PROVE  \E t \in ss : \A s \in ss : s # t => CT!BelowBoth(t, CT!Cursor(s))
<1> DEFINE Times == {x2[s].at : s \in ss}
<1>1. \A s \in ss : x2[s].at \in Nat /\ s \in Nat
  BY DEF CT!CatalogKept, CT!SessionShape, CT!TypeOK, CT!CatalogAssumption
<1>2. PICK a \in Times : \A b \in Times : a <= b
  <2>1. Times \subseteq Nat /\ Times # {} BY <1>1
  <2> HIDE DEF Times
  <2>2. QED BY <2>1, LeastOf
<1>3. PICK u \in ss : x2[u].at = a BY <1>2
<1> DEFINE Same == {s \in ss : x2[s].at = a}
<1>4. PICK t \in Same : \A s \in Same : t <= s
  <2>1. Same \subseteq Nat /\ Same # {} BY <1>1, <1>3
  <2> HIDE DEF Same
  <2>2. QED BY <2>1, LeastOf
<1>5. t \in ss /\ x2[t].at = a BY <1>4
<1>6. ASSUME NEW s \in ss, s # t PROVE CT!BelowBoth(t, CT!Cursor(s))
  <2>1. a <= x2[s].at /\ (x2[s].at = a => t <= s) BY <1>2, <1>4
  <2>2. x2[s].at \in Nat /\ a \in Nat /\ s \in Nat /\ t \in Nat BY <1>1, <1>5
  <2>3. a < x2[s].at \/ (a = x2[s].at /\ t < s) BY <1>6, <2>1, <2>2
  <2>4. QED BY <1>5, <2>3 DEF CT!BelowBoth, CT!Cursor
<1>7. QED BY <1>5, <1>6

\* Some sessions can be put in order.
LEMMA OrderExists ==
  ASSUME CT!CatalogAssumption, CT!CatalogKept, NEW ss, ss \subseteq DOMAIN x2
  PROVE  \E f \in [1 .. Cardinality(ss) -> ss] : CT!InOrder(ss, f)
<1> DEFINE Orders(T) == \E f \in [1 .. Cardinality(T) -> T] : CT!InOrder(T, f)
           S == {n \in Nat : \A T \in SUBSET DOMAIN x2 : Cardinality(T) = n => Orders(T)}
<1>1. IsFiniteSet(DOMAIN x2) BY CTSizes DEF CT!CatalogKept
<1>2. 0 \in S
  <2>1. SUFFICES ASSUME NEW T \in SUBSET DOMAIN x2, Cardinality(T) = 0 PROVE Orders(T) OBVIOUS
  <2>2. IsFiniteSet(T) BY <1>1, FS_Subset
  <2>3. T = {} BY <2>1, <2>2, FS_EmptySet
  <2>4. PICK f : f = [n \in 1 .. 0 |-> 0] OBVIOUS
  <2>5. f \in [1 .. 0 -> T] /\ DOMAIN f = {} BY <2>4
  <2>6. CT!InOrder(T, f) BY <2>3, <2>5 DEF CT!InOrder
  <2>7. QED BY <2>1, <2>5, <2>6
<1>3. ASSUME NEW n \in Nat, n \in S PROVE n + 1 \in S
  <2>1. SUFFICES ASSUME NEW T \in SUBSET DOMAIN x2, Cardinality(T) = n + 1 PROVE Orders(T) OBVIOUS
  <2>2. IsFiniteSet(T) BY <1>1, FS_Subset
  <2>3. T # {} BY <2>1, FS_EmptySet
  <2>4. PICK t \in T : \A s \in T : s # t => CT!BelowBoth(t, CT!Cursor(s)) BY <2>3, LowestSession
  <2>5. PICK U : U = T \ {t} OBVIOUS
  <2>6. Cardinality(U) = n /\ U \in SUBSET DOMAIN x2 /\ t \notin U BY <2>1, <2>2, <2>4, <2>5, FS_RemoveElement
  <2>7. Orders(U) BY <1>3, <2>6
  <2>8. PICK f \in [1 .. n -> U] : CT!InOrder(U, f) BY <2>6, <2>7
  <2>9. PICK g : g = [m \in 1 .. (n + 1) |-> IF m = n + 1 THEN t ELSE f[m]] OBVIOUS
  <2>10. g[n + 1] = t /\ (\A m \in 1 .. n : g[m] = f[m] /\ m \in 1 .. (n + 1)) /\ DOMAIN g = 1 .. (n + 1) BY <2>9
  <2>11. \A m \in 1 .. (n + 1) : m \in 1 .. n \/ m = n + 1 OBVIOUS
  <2>12. g \in [1 .. (n + 1) -> T] BY <2>4, <2>5, <2>8, <2>9
  <2>13. \A s \in T : \E m \in DOMAIN g : g[m] = s
    <3>1. SUFFICES ASSUME NEW s \in T PROVE \E m \in DOMAIN g : g[m] = s OBVIOUS
    <3>2. CASE s = t BY <2>10, <3>2
    <3>3. CASE s # t
      <4>1. s \in U BY <2>5, <3>3
      <4>2. PICK m \in 1 .. n : f[m] = s BY <2>8, <4>1 DEF CT!InOrder
      <4>3. QED BY <2>10, <4>2
    <3>4. QED BY <3>2, <3>3
  <2>14. \A l, m \in DOMAIN g : l < m => CT!BelowBoth(g[m], CT!Cursor(g[l]))
    <3>1. SUFFICES ASSUME NEW l \in DOMAIN g, NEW m \in DOMAIN g, l < m PROVE CT!BelowBoth(g[m], CT!Cursor(g[l])) OBVIOUS
    <3>2. l \in 1 .. n BY <2>10, <3>1
    <3>3. CASE m = n + 1
      <4>1. f[l] \in U BY <2>8, <3>2
      <4>2. g[l] \in T /\ g[l] # t /\ g[m] = t BY <2>5, <2>10, <3>2, <3>3, <4>1
      <4>3. QED BY <2>4, <4>2
    <3>4. CASE m \in 1 .. n
      <4>1. \A i, j \in 1 .. n : i < j => CT!BelowBoth(f[j], CT!Cursor(f[i])) BY <2>8 DEF CT!InOrder
      <4>2. QED BY <2>10, <3>1, <3>2, <3>4, <4>1
    <3>5. QED BY <2>10, <2>11, <3>3, <3>4
  <2>15. CT!InOrder(T, g) BY <2>13, <2>14 DEF CT!InOrder
  <2>16. QED BY <2>1, <2>12, <2>15
<1> HIDE DEF S
<1>4. Nat \subseteq S BY <1>2, <1>3, NatSetInduction
<1>5. IsFiniteSet(ss) /\ Cardinality(ss) \in Nat BY <1>1, FS_Subset, FS_CardinalityType
<1>6. Cardinality(ss) \in S BY <1>4, <1>5
<1>7. Orders(ss) BY <1>6 DEF S
<1>8. QED BY <1>7

LEMMA OrderedOnce ==
  ASSUME CT!CatalogAssumption, CT!CatalogKept, NEW ss, ss \subseteq DOMAIN x2
  PROVE  /\ CT!Ordered(ss) \in [1 .. Cardinality(ss) -> ss] /\ Cardinality(ss) \in Nat
         /\ CT!InOrder(ss, CT!Ordered(ss))
<1>1. IsFiniteSet(ss) /\ Cardinality(ss) \in Nat BY CTSizes, FS_Subset, FS_CardinalityType DEF CT!CatalogKept
<1>2. QED BY CTSizes, <1>1, OrderExists DEF CT!Ordered

\* Whatever happens to sessions, none of them becomes older: the App goes on
\* where it was.
LEMMA ReaderStays ==
  ASSUME CT!CatalogAssumption, CT!CatalogKept, x7' = CT!Still, UNCHANGED CT!Reader, DOMAIN x2 \subseteq DOMAIN x2',
         \A s \in DOMAIN x2 : /\ x2'[s].at \in Nat /\ x2[s].at <= x2'[s].at
                              /\ x2'[s].project = x2[s].project
  PROVE  CT!ReadTrue'
<1>1. CT!ReadTrue /\ \A s \in DOMAIN x2 : x2[s].at \in Nat /\ s \in Nat
  BY DEF CT!CatalogKept, CT!SessionShape, CT!TypeOK, CT!CatalogAssumption
<1>2. x4' = x4 /\ x5' = x5 BY DEF CT!Reader
<1>3. x4' \in Seq(DOMAIN x2') /\ x5' \in [at : Nat, id : Nat] /\ CT!IsInjective(x4')
  <2>1. x4 \in Seq(DOMAIN x2) BY <1>1 DEF CT!ReadTrue
  <2>2. x4 \in [1 .. Len(x4) -> DOMAIN x2'] /\ Len(x4) \in Nat BY <2>1
  <2>3. x4 \in Seq(DOMAIN x2') BY <2>2
  <2>4. QED BY <1>1, <1>2, <2>3 DEF CT!ReadTrue, CT!IsInjective
<1>4. \A n \in DOMAIN x4' : ~CT!BelowBoth(x4[n], x5)'
  <2>1. SUFFICES ASSUME NEW n \in DOMAIN x4' PROVE ~CT!BelowBoth(x4[n], x5)' OBVIOUS
  <2>2. n \in DOMAIN x4 /\ x4[n] \in DOMAIN x2 /\ x4'[n] = x4[n] BY <1>1, <1>2, <2>1 DEF CT!ReadTrue
  <2>3. ~CT!BelowBoth(x4[n], x5) BY <1>1, <2>2 DEF CT!ReadTrue
  <2>4. x5.at \in Nat /\ x5.id \in Nat BY <1>1 DEF CT!ReadTrue
  <2>5. x2[x4[n]].at \in Nat /\ x4[n] \in Nat /\ x2'[x4[n]].at \in Nat /\ x2[x4[n]].at <= x2'[x4[n]].at
    BY <1>1, <2>2
  <2>6. QED BY <1>2, <2>2, <2>3, <2>4, <2>5 DEF CT!BelowBoth
<1>5. x7' \subseteq CT!Recent'
  <2>1. SUFFICES ASSUME NEW s \in CT!Still PROVE s \in CT!Recent' OBVIOUS
  <2>2. s \in x7 /\ ~x2'[s].archived /\ x1'[x2[s].project] # "hidden" BY DEF CT!Still
  <2>3. s \in DOMAIN x2 BY <1>1, <2>2 DEF CT!ReadTrue, CT!Recent
  <2>4. s \in DOMAIN x2' /\ x2'[s].project = x2[s].project BY <2>3
  <2>5. QED BY <2>2, <2>4 DEF CT!Recent, CT!Visible
<1>6. \A s \in x7' : s \in CT!ToSet(x4)' \/ CT!BelowBoth(s, x5)'
  <2>1. SUFFICES ASSUME NEW s \in CT!Still PROVE s \in CT!ToSet(x4)' \/ CT!BelowBoth(s, x5)' OBVIOUS
  <2>2. s \in x7 /\ x2'[s].at = x2[s].at BY DEF CT!Still
  <2>3. s \in CT!ToSet(x4) \/ CT!BelowBoth(s, x5) BY <1>1, <2>2 DEF CT!ReadTrue
  <2>4. QED BY <1>2, <2>2, <2>3 DEF CT!ToSet, CT!BelowBoth
<1>7. QED BY <1>3, <1>4, <1>5, <1>6 DEF CT!ReadTrue

\* One session changes, and keeps its shape.
LEMMA SessionChanges ==
  ASSUME CT!CatalogAssumption, CT!CatalogKept, NEW s \in DOMAIN x2, NEW r \in CT!SessionShape,
         x2' = [x2 EXCEPT ![s] = r], UNCHANGED <<x1, x3, CT!Reader>>, x7' = CT!Still,
         r.project = x2[s].project, r.at \in {x2[s].at, x3},
         r.archived => (~r.busy /\ ~r.pinned)
  PROVE  CT!CatalogKept'
<1>1. /\ CT!TypeOK /\ x3 \in 1 .. MaxTime /\ IsFiniteSet(DOMAIN x2) /\ x2 \in [DOMAIN x2 -> CT!SessionShape]
      /\ MaxTime \in Nat
  BY CTSizes DEF CT!CatalogKept, CT!CatalogAssumption
<1>2. DOMAIN x2' = DOMAIN x2 /\ x2'[s] = r /\ \A t \in DOMAIN x2 : t # s => x2'[t] = x2[t] OBVIOUS
<1>3. x2' \in [DOMAIN x2' -> CT!SessionShape] BY <1>1, <1>2
<1>4. x1' = x1 /\ x3' = x3 OBVIOUS
<1>5. \A t \in DOMAIN x2 : x2[t].at \in 1 .. x3 BY <1>1 DEF CT!TypeOK
<1>6. \A t \in DOMAIN x2 : /\ x2'[t].at \in 1 .. x3 /\ x2[t].at <= x2'[t].at
                           /\ x2'[t].project = x2[t].project
  BY <1>1, <1>2, <1>5
<1>7. CT!ReadTrue'
  <2>1. \A t \in DOMAIN x2 : x2'[t].at \in Nat BY <1>1, <1>6
  <2>2. QED BY <1>2, <1>6, <2>1, ReaderStays
<1>8. CT!TypeOK'
  <2>1. \A t \in DOMAIN x2 : x2[t].archived => (~x2[t].busy /\ ~x2[t].pinned) BY <1>1 DEF CT!TypeOK
  <2>2. \A t \in DOMAIN x2 : x2'[t].archived => (~x2'[t].busy /\ ~x2'[t].pinned) BY <1>2, <2>1
  <2>3. \A t \in DOMAIN x2 : x1[x2[t].project] # "none" BY <1>1 DEF CT!TypeOK
  <2>4. QED BY <1>1, <1>2, <1>4, <1>6, <2>2, <2>3 DEF CT!TypeOK
<1>9. QED BY <1>1, <1>2, <1>3, <1>4, <1>7, <1>8 DEF CT!CatalogKept

\* The App reads a page: the sessions below its place that come first.
LEMMA CatalogRead ==
  ASSUME CT!CatalogAssumption, CT!CatalogKept, CT!ReadPage, x7' = CT!Still PROVE CT!CatalogKept'
<1>1. /\ CT!TypeOK /\ x3 \in 1 .. MaxTime /\ IsFiniteSet(DOMAIN x2) /\ x2 \in [DOMAIN x2 -> CT!SessionShape]
      /\ MaxTime \in Nat /\ PageSize \in Nat \ {0} /\ CT!ReadTrue
  BY CTSizes DEF CT!CatalogKept, CT!CatalogAssumption
<1>2. UNCHANGED <<x1, x2, x3, x6>> BY DEF CT!ReadPage
<1>3. \A s \in DOMAIN x2 : s \in Nat /\ x2[s].at \in Nat /\ x2[s].at # 0 BY <1>1 DEF CT!TypeOK, CT!CatalogAssumption
<1>4. PICK ss : ss = {s \in CT!Recent : CT!Below(s, x5)} OBVIOUS
<1>5. ss \subseteq DOMAIN x2 /\ (\A s \in ss : CT!BelowBoth(s, x5)) /\ ss \subseteq CT!Recent BY <1>4 DEF CT!Recent, CT!Below
<1>6. PICK f : f = CT!Ordered(ss) OBVIOUS
<1>7. PICK N \in Nat : N = Cardinality(ss) BY <1>5, OrderedOnce
<1>8. f \in [1 .. N -> ss] /\ CT!InOrder(ss, f) BY <1>5, <1>6, <1>7, OrderedOnce
<1>9. f \in Seq(ss) /\ Len(f) = N BY <1>8
<1>10. CT!After(x5) = f BY <1>4, <1>6 DEF CT!After
<1>11. PICK k : k = IF N < PageSize THEN N ELSE PageSize OBVIOUS
<1>12. k \in Nat /\ k <= N /\ k <= PageSize /\ (k < N => k = PageSize) BY <1>1, <1>11
<1>13. PICK page : page = SubSeq(f, 1, k) OBVIOUS
<1>14. CT!Page(x5) = page BY <1>9, <1>10, <1>11, <1>13 DEF CT!Page
<1>15. page \in Seq(ss) /\ Len(page) = k /\ \A n \in 1 .. k : page[n] = f[n] BY <1>9, <1>12, <1>13
<1>16. x4' = x4 \o page /\ x5' = IF N > PageSize THEN CT!Cursor(CT!Last(page)) ELSE CT!End
  BY <1>9, <1>10, <1>14 DEF CT!ReadPage
<1>17. \A i, j \in 1 .. N : i < j => CT!BelowBoth(f[j], CT!Cursor(f[i])) BY <1>8 DEF CT!InOrder
<1>18. x5 \in [at : Nat, id : Nat] /\ x4 \in Seq(DOMAIN x2) BY <1>1 DEF CT!ReadTrue
<1>19. page \in Seq(DOMAIN x2)
  <2>1. page \in [1 .. k -> ss] BY <1>15
  <2>2. page \in [1 .. k -> DOMAIN x2] BY <1>5, <2>1
  <2>3. QED BY <1>12, <2>2
<1>20. /\ x5' \in [at : Nat, id : Nat]
       /\ \A s \in DOMAIN x2 : CT!BelowBoth(s, x5') => CT!BelowBoth(s, x5)
       /\ \A n \in 1 .. k : ~CT!BelowBoth(page[n], x5')
       /\ \A n \in 1 .. N : n > k => CT!BelowBoth(f[n], x5')
  <2>1. CASE N > PageSize
    <3>1. k = PageSize /\ k \in 1 .. N /\ k # 0 BY <1>1, <1>11, <2>1
    <3>2. CT!Last(page) = f[k] BY <1>15, <3>1 DEF CT!Last
    <3>3. f[k] \in ss /\ f[k] \in DOMAIN x2 BY <1>5, <1>8, <3>1
    <3>4. x5' = [at |-> x2[f[k]].at, id |-> f[k]] BY <1>16, <2>1, <3>2 DEF CT!Cursor
    <3>5. x5' \in [at : Nat, id : Nat] BY <1>3, <3>3, <3>4
    <3>6. \A s \in DOMAIN x2 : CT!BelowBoth(s, x5') => CT!BelowBoth(s, x5)
      <4>1. CT!BelowBoth(f[k], x5) BY <1>5, <3>3
      <4>2. x5.at \in Nat /\ x5.id \in Nat /\ x2[f[k]].at \in Nat /\ f[k] \in Nat BY <1>3, <1>18, <3>3
      <4>3. x5'.at = x2[f[k]].at /\ x5'.id = f[k] BY <3>4
      <4>4. QED BY <1>3, <4>1, <4>2, <4>3 DEF CT!BelowBoth
    <3>7. \A n \in 1 .. k : ~CT!BelowBoth(page[n], x5')
      <4>1. SUFFICES ASSUME NEW n \in 1 .. k PROVE ~CT!BelowBoth(f[n], x5') BY <1>15
      <4>2. n \in 1 .. N /\ f[n] \in DOMAIN x2 BY <1>5, <1>8, <1>12
      <4>3. x2[f[n]].at \in Nat /\ f[n] \in Nat /\ x2[f[k]].at \in Nat /\ f[k] \in Nat BY <1>3, <3>3, <4>2
      <4>4. x5'.at = x2[f[k]].at /\ x5'.id = f[k] BY <3>4
      <4>5. CASE n = k BY <4>3, <4>4, <4>5 DEF CT!BelowBoth
      <4>6. CASE n # k
        <5>1. n < k BY <1>12, <4>6
        <5>2. CT!BelowBoth(f[k], CT!Cursor(f[n])) BY <1>17, <3>1, <4>2, <5>1
        <5>3. QED BY <4>3, <4>4, <5>2 DEF CT!BelowBoth, CT!Cursor
      <4>7. QED BY <4>5, <4>6
    <3>8. \A n \in 1 .. N : n > k => CT!BelowBoth(f[n], x5')
      <4>1. \A n \in 1 .. N : n > k => CT!BelowBoth(f[n], CT!Cursor(f[k])) BY <1>17, <3>1
      <4>2. x5' = CT!Cursor(f[k]) BY <3>4 DEF CT!Cursor
      <4>3. QED BY <4>1, <4>2
    <3>9. QED BY <3>5, <3>6, <3>7, <3>8
  <2>2. CASE ~(N > PageSize)
    <3>1. k = N BY <1>1, <1>11, <2>2
    <3>2. x5' = [at |-> 0, id |-> 0] BY <1>16, <2>2 DEF CT!End
    <3>3. \A s \in DOMAIN x2 : ~CT!BelowBoth(s, x5') BY <1>3, <3>2 DEF CT!BelowBoth
    <3>4. \A n \in 1 .. k : page[n] \in DOMAIN x2 BY <1>15, <1>19
    <3>5. QED BY <1>12, <3>1, <3>2, <3>3, <3>4
  <2>3. QED BY <2>1, <2>2
<1>21. PICK l \in Nat : l = Len(x4) BY <1>18
<1>22. /\ x4 \in [1 .. l -> DOMAIN x2] /\ Len(x4') = l + k /\ x4' \in Seq(DOMAIN x2)
       /\ DOMAIN x4' = 1 .. (l + k) /\ \A n \in 1 .. (l + k) : x4'[n] = IF n <= l THEN x4[n] ELSE page[n - l]
  <2>1. x4' = x4 \o page /\ Len(page) = k BY <1>15, <1>16
  <2>2. x4' \in Seq(DOMAIN x2) BY <1>18, <1>19, <2>1
  <2>3. x4 \in [1 .. l -> DOMAIN x2] BY <1>18, <1>21
  <2>4. Len(x4') = l + k
    <3>1. Len(x4 \o page) = Len(x4) + Len(page) BY <1>18, <1>19
    <3>2. QED BY <1>15, <1>21, <2>1, <3>1
  <2>5. DOMAIN x4' = 1 .. (l + k) BY <2>2, <2>4
  <2>6. \A n \in 1 .. (l + k) : x4'[n] = IF n <= l THEN x4[n] ELSE page[n - l] BY <1>12, <1>18, <1>19, <1>21, <2>1
  <2>7. QED BY <2>2, <2>3, <2>4, <2>5, <2>6
<1>23. \A n \in 1 .. (l + k) : n \in 1 .. l \/ (n > l /\ n - l \in 1 .. k) BY <1>12, <1>21
<1>24. \A n \in 1 .. l : x4[n] \in DOMAIN x2 /\ ~CT!BelowBoth(x4[n], x5) BY <1>1, <1>22 DEF CT!ReadTrue
<1>25. \A n \in 1 .. k : page[n] \in ss /\ page[n] \in DOMAIN x2 /\ CT!BelowBoth(page[n], x5) BY <1>5, <1>8, <1>12, <1>15
<1>26. \A i, j \in 1 .. k : page[i] = page[j] => i = j
  <2>1. SUFFICES ASSUME NEW i \in 1 .. k, NEW j \in 1 .. k, page[i] = page[j], i # j PROVE FALSE OBVIOUS
  <2>2. i \in 1 .. N /\ j \in 1 .. N /\ f[i] = f[j] BY <1>12, <1>15, <2>1
  <2>3. f[i] \in DOMAIN x2 BY <1>15, <1>25
  <2>4. ~CT!BelowBoth(f[i], CT!Cursor(f[i])) BY <1>3, <2>3 DEF CT!BelowBoth, CT!Cursor
  <2>5. i < j \/ j < i BY <2>1
  <2>6. QED BY <1>17, <2>2, <2>4, <2>5
<1>27. CT!IsInjective(x4')
  <2>1. \A i, j \in 1 .. l : x4[i] = x4[j] => i = j BY <1>1, <1>22 DEF CT!ReadTrue, CT!IsInjective
  <2>2. SUFFICES ASSUME NEW i \in 1 .. (l + k), NEW j \in 1 .. (l + k), x4'[i] = x4'[j] PROVE i = j
    BY <1>22 DEF CT!IsInjective
  <2>3. CASE i <= l /\ j <= l BY <1>21, <1>22, <2>1, <2>2, <2>3
  <2>4. CASE i <= l /\ ~(j <= l)
    <3>1. x4'[i] = x4[i] /\ i \in 1 .. l /\ x4'[j] = page[j - l] /\ j - l \in 1 .. k BY <1>21, <1>22, <1>23, <2>4
    <3>2. QED BY <1>24, <1>25, <2>2, <3>1
  <2>5. CASE ~(i <= l) /\ j <= l
    <3>1. x4'[j] = x4[j] /\ j \in 1 .. l /\ x4'[i] = page[i - l] /\ i - l \in 1 .. k BY <1>21, <1>22, <1>23, <2>5
    <3>2. QED BY <1>24, <1>25, <2>2, <3>1
  <2>6. CASE ~(i <= l) /\ ~(j <= l)
    <3>1. x4'[i] = page[i - l] /\ i - l \in 1 .. k /\ x4'[j] = page[j - l] /\ j - l \in 1 .. k
      BY <1>21, <1>22, <1>23, <2>6
    <3>2. i - l = j - l BY <1>26, <2>2, <3>1
    <3>3. QED BY <1>21, <3>2
  <2>7. QED BY <2>3, <2>4, <2>5, <2>6
<1>28. \A n \in 1 .. (l + k) : ~CT!BelowBoth(x4'[n], x5')
  <2>1. SUFFICES ASSUME NEW n \in 1 .. (l + k) PROVE ~CT!BelowBoth(x4'[n], x5') OBVIOUS
  <2>2. CASE n \in 1 .. l BY <1>20, <1>22, <1>24, <2>2
  <2>3. CASE n > l /\ n - l \in 1 .. k
    <3>1. x4'[n] = page[n - l] BY <1>21, <1>22, <2>3
    <3>2. QED BY <1>20, <2>3, <3>1
  <2>4. QED BY <1>23, <2>2, <2>3
<1>29. x7' \subseteq x7 /\ x7 \subseteq CT!Recent /\ CT!Recent' = CT!Recent
  BY <1>1, <1>2 DEF CT!Still, CT!ReadTrue, CT!Recent, CT!Visible
<1>30. \A s \in x7 : s \in CT!ToSet(x4') \/ CT!BelowBoth(s, x5')
  <2>1. SUFFICES ASSUME NEW s \in x7 PROVE s \in CT!ToSet(x4') \/ CT!BelowBoth(s, x5') OBVIOUS
  <2>2. s \in CT!ToSet(x4) \/ CT!BelowBoth(s, x5) BY <1>1 DEF CT!ReadTrue
  <2>3. CASE s \in CT!ToSet(x4)
    <3>1. PICK n \in 1 .. l : x4[n] = s BY <1>22, <2>3 DEF CT!ToSet
    <3>2. n \in 1 .. (l + k) /\ x4'[n] = s BY <1>12, <1>21, <1>22, <3>1
    <3>3. QED BY <1>22, <3>2 DEF CT!ToSet
  <2>4. CASE CT!BelowBoth(s, x5)
    <3>1. s \in ss BY <1>4, <1>29, <2>4 DEF CT!Below
    <3>2. PICK n \in 1 .. N : f[n] = s BY <1>8, <3>1 DEF CT!InOrder
    <3>3. CASE n > k BY <1>20, <3>2, <3>3
    <3>4. CASE ~(n > k)
      <4>1. n \in 1 .. k /\ page[n] = s BY <1>12, <1>15, <3>2, <3>4
      <4>2. n + l \in 1 .. (l + k) /\ ~(n + l <= l) /\ (n + l) - l = n BY <1>12, <1>21, <4>1
      <4>3. x4'[n + l] = s BY <1>22, <4>1, <4>2
      <4>4. QED BY <1>22, <4>2, <4>3 DEF CT!ToSet
    <3>5. QED BY <3>3, <3>4
  <2>5. QED BY <2>2, <2>3, <2>4
<1>31. CT!ReadTrue'
  <2>1. \A s : CT!BelowBoth(s, x5)' = CT!BelowBoth(s, x5') BY <1>2 DEF CT!BelowBoth
  <2>2. \A n \in DOMAIN x4' : ~CT!BelowBoth(x4[n], x5)'
    <3>1. \A n \in DOMAIN x4' : CT!BelowBoth(x4[n], x5)' = CT!BelowBoth(x4'[n], x5') BY <1>2 DEF CT!BelowBoth
    <3>2. QED BY <1>22, <1>28, <3>1
  <2>3. QED BY <1>2, <1>20, <1>22, <1>27, <1>29, <1>30, <2>1, <2>2 DEF CT!ReadTrue
<1>32. CT!TypeOK' BY <1>1, <1>2 DEF CT!TypeOK
<1>33. QED BY <1>1, <1>2, <1>31, <1>32 DEF CT!CatalogKept

\* A host has no sessions at first.
LEMMA InitCatalog == ASSUME CT!CatalogAssumption, CT!Init PROVE CT!CatalogKept
<1>1. x1 = [p \in Projects |-> "none"] /\ x2 = [s \in {} |-> 0] /\ x3 = 1 /\ x4 = <<>> /\ x5 = CT!Start /\ x7 = {}
  BY DEF CT!Init
<1>2. DOMAIN x2 = {} BY <1>1
<1>3. CT!TypeOK BY <1>1, <1>2 DEF CT!TypeOK
<1>4. x3 \in 1 .. MaxTime BY <1>1 DEF CT!CatalogAssumption
<1>5. IsFiniteSet(DOMAIN x2) /\ x2 \in [DOMAIN x2 -> CT!SessionShape] BY <1>1, <1>2, FS_EmptySet
<1>6. CT!ReadTrue
  <2>1. x4 \in Seq(DOMAIN x2) /\ DOMAIN x4 = {} BY <1>1
  <2>2. x5 \in [at : Nat, id : Nat] BY <1>1 DEF CT!Start, CT!CatalogAssumption
  <2>3. CT!IsInjective(x4) BY <2>1 DEF CT!IsInjective
  <2>4. QED BY <1>1, <2>1, <2>2, <2>3 DEF CT!ReadTrue
<1>7. QED BY CTSizes, <1>3, <1>4, <1>5, <1>6 DEF CT!CatalogKept

\* Every step keeps it.
LEMMA NextCatalog == ASSUME CT!CatalogAssumption, CT!CatalogKept, [CT!Next]_(CT!vars) PROVE CT!CatalogKept'
<1>1. /\ CT!TypeOK /\ x3 \in 1 .. MaxTime /\ IsFiniteSet(DOMAIN x2) /\ x2 \in [DOMAIN x2 -> CT!SessionShape]
      /\ MaxTime \in Nat /\ CT!ReadTrue
  BY CTSizes DEF CT!CatalogKept, CT!CatalogAssumption
<1>2. \A s \in DOMAIN x2 : /\ x2[s] \in CT!SessionShape /\ x1[x2[s].project] # "none" /\ x2[s].at \in 1 .. x3
                           /\ x2[s].archived => (~x2[s].busy /\ ~x2[s].pinned)
  BY <1>1 DEF CT!TypeOK
<1>3. CASE CT!Tick /\ x7' = CT!Still
  <2>1. x3' = x3 + 1 /\ x3 < MaxTime /\ UNCHANGED <<x1, x2, CT!Reader>> BY <1>3 DEF CT!Tick
  <2>2. x3' \in 1 .. MaxTime BY <1>1, <2>1
  <2>3. \A s \in DOMAIN x2 : x2'[s].at \in Nat /\ x2[s].at <= x2'[s].at /\ x2'[s].project = x2[s].project
    BY <1>1, <1>2, <2>1
  <2>4. CT!ReadTrue' BY <1>3, <2>1, <2>3, ReaderStays
  <2>5. CT!TypeOK'
    <3>1. \A s \in DOMAIN x2 : x2[s].at \in 1 .. x3' BY <1>1, <1>2, <2>1
    <3>2. QED BY <1>1, <2>1, <3>1 DEF CT!TypeOK
  <2>6. QED BY <1>1, <2>1, <2>2, <2>4, <2>5 DEF CT!CatalogKept
<1>4. ASSUME NEW p \in Projects, CT!AddProject(p) \/ CT!RemoveProject(p), x7' = CT!Still PROVE CT!CatalogKept'
  <2>1. UNCHANGED <<x2, x3, CT!Reader>> BY <1>4 DEF CT!AddProject, CT!RemoveProject
  <2>2. \A s \in DOMAIN x2 : x2'[s].at \in Nat /\ x2[s].at <= x2'[s].at /\ x2'[s].project = x2[s].project
    BY <1>1, <1>2, <2>1
  <2>3. CT!ReadTrue' BY <1>4, <2>1, <2>2, ReaderStays
  <2>4. x1' \in [Projects -> {"none", "shown", "hidden"}] /\ \A q \in Projects : x1'[q] = "none" => x1[q] = "none"
    BY <1>1, <1>4 DEF CT!AddProject, CT!RemoveProject, CT!TypeOK
  <2>5. \A s \in DOMAIN x2 : x2[s].project \in Projects BY <1>2 DEF CT!SessionShape
  <2>6. CT!TypeOK' BY <1>1, <2>1, <2>4, <2>5 DEF CT!TypeOK
  <2>7. QED BY <1>1, <2>1, <2>3, <2>6 DEF CT!CatalogKept
<1>5. ASSUME NEW p \in Projects, NEW s \in Sessions, CT!Create(s, p), x7' = CT!Still PROVE CT!CatalogKept'
  <2>1. UNCHANGED <<x1, x3, CT!Reader>> /\ s \notin DOMAIN x2 /\ x1[p] # "none" BY <1>5 DEF CT!Create
  <2>2. PICK r : r = [project |-> p, at |-> x3, archived |-> FALSE, pinned |-> FALSE, busy |-> FALSE] OBVIOUS
  <2>3. x2' = [t \in DOMAIN x2 \cup {s} |-> IF t = s THEN r ELSE x2[t]] BY <1>5, <2>2 DEF CT!Create
  <2>4. DOMAIN x2' = DOMAIN x2 \cup {s} /\ x2'[s] = r /\ \A t \in DOMAIN x2 : t # s /\ x2'[t] = x2[t]
    BY <2>1, <2>3
  <2>5. r \in CT!SessionShape BY <1>1, <2>2 DEF CT!SessionShape
  <2>6. r.project = p /\ r.at = x3 /\ ~r.archived BY <2>2
  <2>7. x2' \in [DOMAIN x2' -> CT!SessionShape] BY <1>1, <2>3, <2>4, <2>5
  <2>8. IsFiniteSet(DOMAIN x2') BY <1>1, <2>4, FS_AddElement
  <2>9. \A t \in DOMAIN x2 : x2'[t].at \in Nat /\ x2[t].at <= x2'[t].at /\ x2'[t].project = x2[t].project
    BY <1>1, <1>2, <2>4
  <2>10. CT!ReadTrue' BY <1>5, <2>1, <2>4, <2>9, ReaderStays
  <2>11. CT!TypeOK'
    <3>1. \A t \in DOMAIN x2' : /\ x1'[x2'[t].project] # "none" /\ x2'[t].at \in 1 .. x3'
                                /\ x2'[t].archived => (~x2'[t].busy /\ ~x2'[t].pinned)
      <4>1. SUFFICES ASSUME NEW t \in DOMAIN x2'
                     PROVE  /\ x1'[x2'[t].project] # "none" /\ x2'[t].at \in 1 .. x3'
                            /\ x2'[t].archived => (~x2'[t].busy /\ ~x2'[t].pinned)
        OBVIOUS
      <4>2. CASE t = s BY <1>1, <2>1, <2>4, <2>6, <4>2
      <4>3. CASE t # s
        <5>1. t \in DOMAIN x2 /\ x2'[t] = x2[t] BY <2>4, <4>3
        <5>2. QED BY <1>2, <2>1, <5>1
      <4>4. QED BY <4>2, <4>3
    <3>2. x1' \in [Projects -> {"none", "shown", "hidden"}] /\ DOMAIN x2' \subseteq Sessions
      BY <1>1, <2>1, <2>4 DEF CT!TypeOK
    <3>3. QED BY <3>1, <3>2 DEF CT!TypeOK
  <2>12. QED BY CTSizes, <1>1, <2>1, <2>7, <2>8, <2>10, <2>11 DEF CT!CatalogKept
<1>6. ASSUME NEW s \in DOMAIN x2, x7' = CT!Still,
             CT!Begin(s) \/ CT!Activity(s) \/ CT!Settle(s) \/ CT!Pin(s) \/ CT!Unpin(s) \/ CT!Archive(s) \/ CT!Restore(s)
      PROVE  CT!CatalogKept'
  <2>1. UNCHANGED <<x1, x3, CT!Reader>> BY <1>6 DEF CT!Begin, CT!Activity, CT!Settle, CT!Pin, CT!Unpin, CT!Archive, CT!Restore
  <2>2. PICK o \in CT!SessionShape : o = x2[s] BY <1>2
  <2>3. o.at \in 1 .. x3 /\ (o.archived => (~o.busy /\ ~o.pinned)) BY <1>2, <2>2
  <2>4. x3 \in Nat BY <1>1
  <2>5. CASE CT!Begin(s)
    <3>1. PICK r : r = [o EXCEPT !.busy = TRUE, !.at = x3] OBVIOUS
    <3>2. x2' = [x2 EXCEPT ![s] = r] /\ ~o.archived BY <2>2, <2>5, <3>1 DEF CT!Begin
    <3>3. r \in CT!SessionShape /\ r.project = o.project /\ r.at = x3 /\ r.archived = o.archived BY <2>2, <2>4, <3>1 DEF CT!SessionShape
    <3>4. QED BY <1>6, <2>1, <2>2, <3>2, <3>3, SessionChanges
  <2>6. CASE CT!Activity(s)
    <3>1. PICK r : r = [o EXCEPT !.at = x3] OBVIOUS
    <3>2. x2' = [x2 EXCEPT ![s] = r] BY <2>2, <2>6, <3>1 DEF CT!Activity, CT!Set
    <3>3. /\ r \in CT!SessionShape /\ r.project = o.project /\ r.at = x3 /\ r.archived = o.archived /\ r.busy = o.busy
          /\ r.pinned = o.pinned
      BY <2>2, <2>4, <3>1 DEF CT!SessionShape
    <3>4. QED BY <1>6, <2>1, <2>2, <2>3, <3>2, <3>3, SessionChanges
  <2>7. CASE CT!Settle(s)
    <3>1. PICK r : r = [o EXCEPT !.busy = FALSE] OBVIOUS
    <3>2. x2' = [x2 EXCEPT ![s] = r] BY <2>2, <2>7, <3>1 DEF CT!Settle, CT!Set
    <3>3. /\ r \in CT!SessionShape /\ r.project = o.project /\ r.at = o.at /\ r.archived = o.archived /\ ~r.busy
          /\ r.pinned = o.pinned
      BY <2>2, <3>1 DEF CT!SessionShape
    <3>4. QED BY <1>6, <2>1, <2>2, <2>3, <3>2, <3>3, SessionChanges
  <2>8. CASE CT!Pin(s)
    <3>1. PICK r : r = [o EXCEPT !.pinned = TRUE] OBVIOUS
    <3>2. x2' = [x2 EXCEPT ![s] = r] /\ ~o.archived BY <2>2, <2>8, <3>1 DEF CT!Pin, CT!Set
    <3>3. r \in CT!SessionShape /\ r.project = o.project /\ r.at = o.at /\ r.archived = o.archived BY <2>2, <3>1 DEF CT!SessionShape
    <3>4. QED BY <1>6, <2>1, <2>2, <3>2, <3>3, SessionChanges
  <2>9. CASE CT!Unpin(s)
    <3>1. PICK r : r = [o EXCEPT !.pinned = FALSE] OBVIOUS
    <3>2. x2' = [x2 EXCEPT ![s] = r] BY <2>2, <2>9, <3>1 DEF CT!Unpin, CT!Set
    <3>3. /\ r \in CT!SessionShape /\ r.project = o.project /\ r.at = o.at /\ r.archived = o.archived /\ r.busy = o.busy
          /\ ~r.pinned
      BY <2>2, <3>1 DEF CT!SessionShape
    <3>4. QED BY <1>6, <2>1, <2>2, <2>3, <3>2, <3>3, SessionChanges
  <2>10. CASE CT!Archive(s)
    <3>1. PICK r : r = [o EXCEPT !.archived = TRUE, !.pinned = FALSE] OBVIOUS
    <3>2. x2' = [x2 EXCEPT ![s] = r] /\ ~o.busy BY <2>2, <2>10, <3>1 DEF CT!Archive
    <3>3. r \in CT!SessionShape /\ r.project = o.project /\ r.at = o.at /\ r.busy = o.busy /\ ~r.pinned BY <2>2, <3>1 DEF CT!SessionShape
    <3>4. QED BY <1>6, <2>1, <2>2, <3>2, <3>3, SessionChanges
  <2>11. CASE CT!Restore(s)
    <3>1. PICK r : r = [o EXCEPT !.archived = FALSE] OBVIOUS
    <3>2. x2' = [x2 EXCEPT ![s] = r] BY <2>2, <2>11, <3>1 DEF CT!Restore, CT!Set
    <3>3. r \in CT!SessionShape /\ r.project = o.project /\ r.at = o.at /\ ~r.archived BY <2>2, <3>1 DEF CT!SessionShape
    <3>4. QED BY <1>6, <2>1, <2>2, <3>2, <3>3, SessionChanges
  <2>12. QED BY <1>6, <2>5, <2>6, <2>7, <2>8, <2>9, <2>10, <2>11
<1>7. CASE CT!ReadEnds /\ x7' = CT!Still
  <2>1. UNCHANGED <<x1, x2, x3, x4, x5>> BY <1>7 DEF CT!ReadEnds
  <2>2. x7' \subseteq x7 /\ CT!Recent' = CT!Recent BY <1>7, <2>1 DEF CT!Still, CT!Recent, CT!Visible
  <2>3. CT!ReadTrue'
    <3>1. x4' \in Seq(DOMAIN x2') /\ x5' \in [at : Nat, id : Nat] /\ CT!IsInjective(x4') BY <1>1, <2>1 DEF CT!ReadTrue
    <3>2. \A n \in DOMAIN x4' : ~CT!BelowBoth(x4[n], x5)' BY <1>1, <2>1 DEF CT!ReadTrue, CT!BelowBoth
    <3>3. \A s \in x7' : s \in CT!ToSet(x4)' \/ CT!BelowBoth(s, x5)' BY <1>1, <2>1, <2>2 DEF CT!ReadTrue, CT!BelowBoth, CT!ToSet
    <3>4. x7' \subseteq CT!Recent' BY <1>1, <2>2 DEF CT!ReadTrue
    <3>5. QED BY <3>1, <3>2, <3>3, <3>4 DEF CT!ReadTrue
  <2>4. CT!TypeOK' BY <1>1, <2>1 DEF CT!TypeOK
  <2>5. QED BY <1>1, <2>1, <2>3, <2>4 DEF CT!CatalogKept
<1>8. CASE CT!ReadFirst /\ x7' = CT!Recent
  <2>1. x4' = <<>> /\ x5' = CT!Start /\ UNCHANGED <<x1, x2, x3>> BY <1>8 DEF CT!ReadFirst
  <2>2. CT!Recent' = CT!Recent BY <2>1 DEF CT!Recent, CT!Visible
  <2>3. x5' = [at |-> MaxTime + 1, id |-> 0] BY <2>1 DEF CT!Start
  <2>4. CT!ReadTrue'
    <3>1. x4' \in Seq(DOMAIN x2') /\ DOMAIN x4' = {} /\ x5' \in [at : Nat, id : Nat] BY <1>1, <2>1, <2>3
    <3>2. CT!IsInjective(x4') BY <3>1 DEF CT!IsInjective
    <3>3. \A s \in x7' : CT!BelowBoth(s, x5)'
      <4>1. SUFFICES ASSUME NEW s \in CT!Recent PROVE CT!BelowBoth(s, x5)' BY <1>8
      <4>2. x2[s].at \in 1 .. x3 BY <1>2 DEF CT!Recent
      <4>3. x2'[s].at < MaxTime + 1 BY <1>1, <2>1, <4>2
      <4>4. QED BY <2>3, <4>3 DEF CT!BelowBoth
    <3>4. x7' \subseteq CT!Recent' BY <1>8, <2>2
    <3>5. QED BY <3>1, <3>2, <3>3, <3>4 DEF CT!ReadTrue
  <2>5. CT!TypeOK' BY <1>1, <2>1 DEF CT!TypeOK
  <2>6. QED BY <1>1, <2>1, <2>4, <2>5 DEF CT!CatalogKept
<1>9. CASE UNCHANGED CT!vars
  <2>1. UNCHANGED <<x1, x2, x3, x4, x5, x7>> BY <1>9 DEF CT!vars
  <2>2. CT!Recent' = CT!Recent BY <2>1 DEF CT!Recent, CT!Visible
  <2>3. CT!ReadTrue'
    <3>1. x4' \in Seq(DOMAIN x2') /\ x5' \in [at : Nat, id : Nat] /\ CT!IsInjective(x4') BY <1>1, <2>1 DEF CT!ReadTrue
    <3>2. \A n \in DOMAIN x4' : ~CT!BelowBoth(x4[n], x5)' BY <1>1, <2>1 DEF CT!ReadTrue, CT!BelowBoth
    <3>3. \A s \in x7' : s \in CT!ToSet(x4)' \/ CT!BelowBoth(s, x5)' BY <1>1, <2>1 DEF CT!ReadTrue, CT!BelowBoth, CT!ToSet
    <3>4. x7' \subseteq CT!Recent' BY <1>1, <2>1, <2>2 DEF CT!ReadTrue
    <3>5. QED BY <3>1, <3>2, <3>3, <3>4 DEF CT!ReadTrue
  <2>4. CT!TypeOK' BY <1>1, <2>1 DEF CT!TypeOK
  <2>5. QED BY <1>1, <2>1, <2>3, <2>4 DEF CT!CatalogKept
<1>10. CASE CT!Steps /\ x7' = CT!Still
  <2>1. CASE \E p \in Projects : CT!AddProject(p) \/ CT!RemoveProject(p) \/ \E s \in Sessions : CT!Create(s, p)
    BY <1>4, <1>5, <1>10, <2>1
  <2>2. CASE \E s \in DOMAIN x2 : CT!Begin(s) \/ CT!Activity(s) \/ CT!Settle(s) \/ CT!Pin(s) \/ CT!Unpin(s) \/ CT!Archive(s) \/ CT!Restore(s)
    BY <1>6, <1>10, <2>2
  <2>3. CASE CT!ReadPage BY <1>10, <2>3, CatalogRead
  <2>4. QED BY <1>3, <1>7, <1>10, <2>1, <2>2, <2>3 DEF CT!Steps
<1>11. QED BY <1>8, <1>9, <1>10 DEF CT!Next

\* What was read is read once, and nothing that stayed where it was is missed.
LEMMA ReadOnce == ASSUME CT!CatalogKept PROVE CT!RecentExact /\ CT!TypeOK
BY DEF CT!CatalogKept, CT!ReadTrue, CT!RecentExact

-----------------------------------------------------------------------------
(* Sources: the uses of sources, indexed from the log.                       *)

\* The library's words are the same in every module.
LEMMA SRSizes == \A S : SR!Cardinality(S) = Cardinality(S) /\ (SR!IsFiniteSet(S) <=> IsFiniteSet(S))
BY DEF SR!Cardinality, Cardinality, SR!IsFiniteSet, IsFiniteSet

\* The index after each of some events.
IndexRuns(i, new, N, f) ==
  f = [n \in 0 .. N |-> IF n = 0 THEN i ELSE SR!IndexEvent(f[n - 1], new[n])]

LEMMA RunsExist ==
  ASSUME NEW i, NEW new, NEW N \in Nat
  PROVE  \E f : IndexRuns(i, new, N, f)
<1> DEFINE S == {n \in Nat : \E f : IndexRuns(i, new, n, f)}
<1>1. 0 \in S
  <2>1. PICK f : f = [n \in 0 .. 0 |-> i] OBVIOUS
  <2>2. f = [n \in 0 .. 0 |-> IF n = 0 THEN i ELSE SR!IndexEvent(f[n - 1], new[n])] BY <2>1
  <2>3. IndexRuns(i, new, 0, f) BY <2>2 DEF IndexRuns
  <2>4. QED BY <2>3
<1>2. ASSUME NEW n \in Nat, n \in S PROVE n + 1 \in S
  <2>1. PICK f : IndexRuns(i, new, n, f) BY <1>2
  <2>2. PICK g : g = [m \in 0 .. (n + 1) |-> IF m = n + 1 THEN SR!IndexEvent(f[n], new[n + 1]) ELSE f[m]] OBVIOUS
  <2>3. \A m \in 0 .. (n + 1) : g[m] = IF m = 0 THEN i ELSE SR!IndexEvent(g[m - 1], new[m])
    <3>1. SUFFICES ASSUME NEW m \in 0 .. (n + 1) PROVE g[m] = IF m = 0 THEN i ELSE SR!IndexEvent(g[m - 1], new[m]) OBVIOUS
    <3>2. CASE m = n + 1
      <4>1. m # 0 /\ m - 1 = n /\ n \in 0 .. (n + 1) /\ n # n + 1 BY <3>2
      <4>2. g[n] = f[n] BY <2>2, <4>1
      <4>3. QED BY <2>2, <3>2, <4>1, <4>2
    <3>3. CASE m # n + 1
      <4>1. m \in 0 .. n /\ m - 1 # n + 1 BY <3>3
      <4>2. g[m] = f[m] BY <2>2, <3>3
      <4>3. f[m] = IF m = 0 THEN i ELSE SR!IndexEvent(f[m - 1], new[m]) BY <2>1, <4>1 DEF IndexRuns
      <4>4. m # 0 => m - 1 \in 0 .. (n + 1) /\ g[m - 1] = f[m - 1] BY <2>2, <4>1
      <4>5. QED BY <4>2, <4>3, <4>4
    <3>4. QED BY <3>2, <3>3
  <2>4. g = [m \in 0 .. (n + 1) |-> IF m = 0 THEN i ELSE SR!IndexEvent(g[m - 1], new[m])] BY <2>2, <2>3
  <2>5. IndexRuns(i, new, n + 1, g) BY <2>4 DEF IndexRuns
  <2>6. QED BY <2>5
<1> HIDE DEF S
<1>3. Nat \subseteq S BY <1>1, <1>2, NatSetInduction
<1>4. QED BY <1>3 DEF S

LEMMA IndexedRuns ==
  ASSUME NEW i, NEW new, Len(new) \in Nat
  PROVE  \E f : IndexRuns(i, new, Len(new), f) /\ SR!Indexed(i, new) = f[Len(new)]
<1> DEFINE after[n \in 0 .. Len(new)] == IF n = 0 THEN i ELSE SR!IndexEvent(after[n - 1], new[n])
<1>1. SR!Indexed(i, new) = after[Len(new)] BY DEF SR!Indexed
<1>2. after = CHOOSE f : f = [n \in 0 .. Len(new) |-> IF n = 0 THEN i ELSE SR!IndexEvent(f[n - 1], new[n])] OBVIOUS
<1> HIDE DEF after
<1>3. after = CHOOSE f : IndexRuns(i, new, Len(new), f) BY <1>2 DEF IndexRuns
<1>4. IndexRuns(i, new, Len(new), after) BY <1>3, RunsExist
<1>5. QED BY <1>1, <1>4

\* A call that is told for the first time.
LEMMA CallCounted ==
  ASSUME SR!SourceAssumption, NEW seen, NEW counts, NEW told, SR!IndexTrue(seen, counts, told), NEW c \in Calls, c \notin seen,
         NEW s \in CallSources, NEW told2, told2 = [d \in seen \cup {c} |-> IF d = c THEN s ELSE told[d]]
  PROVE  SR!IndexTrue(seen \cup {c}, SR!AddTo(counts, s, 1), told2)
<1>1. PICK seen2 : seen2 = seen \cup {c} OBVIOUS
<1>2. PICK counts2 : counts2 = SR!AddTo(counts, s, 1) OBVIOUS
<1>3. IsFiniteSet(seen2) /\ seen2 \subseteq Calls BY SRSizes, <1>1, FS_AddElement DEF SR!IndexTrue
<1>4. /\ DOMAIN told2 = seen2 /\ told2 = [d \in seen2 |-> told2[d]] /\ told2[c] = s
      /\ \A d \in seen : told2[d] = told[d] /\ d # c
  BY <1>1
<1> DEFINE Of(t) == {d \in seen : told[d] = t}
           Of2(t) == {d \in seen2 : told2[d] = t}
<1>5. \A t : t # s => Of2(t) = Of(t) BY <1>1, <1>4
<1>6. Of2(s) = Of(s) \cup {c} /\ c \notin Of(s) BY <1>1, <1>4
<1>7. IsFiniteSet(Of(s)) BY SRSizes, FS_Subset DEF SR!IndexTrue
<1>8. Cardinality(Of2(s)) = Cardinality(Of(s)) + 1 /\ Cardinality(Of(s)) \in Nat
  BY <1>6, <1>7, FS_AddElement, FS_CardinalityType
<1>9. \A t \in DOMAIN counts : t \in CallSources => counts[t] = Cardinality(Of(t)) BY SRSizes DEF SR!IndexTrue
<1> HIDE DEF Of, Of2
<1>10. /\ IsFiniteSet(DOMAIN counts) /\ counts \in [DOMAIN counts -> Nat] /\ DOMAIN counts \subseteq CallSources \cup Files
       /\ Cardinality(DOMAIN counts) <= MaxSources /\ Cardinality(DOMAIN counts) \in Nat /\ MaxSources \in Nat
       /\ Cardinality(DOMAIN counts) < MaxSources => \A d \in seen : told[d] \in DOMAIN counts
  BY SRSizes, FS_CardinalityType DEF SR!IndexTrue, SR!SourceAssumption
<1>11. /\ IsFiniteSet(DOMAIN counts2) /\ counts2 \in [DOMAIN counts2 -> Nat] /\ DOMAIN counts2 \subseteq CallSources \cup Files
       /\ Cardinality(DOMAIN counts2) <= MaxSources
       /\ \A t \in DOMAIN counts2 : t \in CallSources => counts2[t] = Cardinality(Of2(t))
       /\ Cardinality(DOMAIN counts2) < MaxSources => \A d \in seen2 : told2[d] \in DOMAIN counts2
  <2>1. CASE s \in DOMAIN counts
    <3>1. counts2 = [counts EXCEPT ![s] = @ + 1] BY <1>2, <2>1 DEF SR!AddTo
    <3>2. /\ DOMAIN counts2 = DOMAIN counts /\ counts2[s] = counts[s] + 1
          /\ \A t \in DOMAIN counts : t # s => counts2[t] = counts[t]
      BY <1>10, <2>1, <3>1
    <3>3. \A t \in DOMAIN counts2 : t \in CallSources => counts2[t] = Cardinality(Of2(t))
      BY <1>5, <1>8, <1>9, <2>1, <3>2
    <3>4. counts2 \in [DOMAIN counts2 -> Nat] BY <1>10, <2>1, <3>1, <3>2
    <3>5. Cardinality(DOMAIN counts2) < MaxSources => \A d \in seen2 : told2[d] \in DOMAIN counts2
      BY <1>1, <1>4, <1>10, <2>1, <3>2
    <3>6. QED BY <1>10, <3>2, <3>3, <3>4, <3>5
  <2>2. CASE s \notin DOMAIN counts /\ Cardinality(DOMAIN counts) >= MaxSources
    <3>1. counts2 = counts BY SRSizes, <1>2, <2>2 DEF SR!AddTo
    <3>2. \A t \in DOMAIN counts2 : t \in CallSources => counts2[t] = Cardinality(Of2(t)) BY <1>5, <1>9, <2>2, <3>1
    <3>3. ~(Cardinality(DOMAIN counts2) < MaxSources) BY <1>10, <2>2, <3>1
    <3>4. QED BY <1>10, <3>1, <3>2, <3>3
  <2>3. CASE s \notin DOMAIN counts /\ ~(Cardinality(DOMAIN counts) >= MaxSources)
    <3>1. counts2 = [t \in DOMAIN counts \cup {s} |-> IF t = s THEN 1 ELSE counts[t]] BY SRSizes, <1>2, <2>3 DEF SR!AddTo
    <3>2. /\ DOMAIN counts2 = DOMAIN counts \cup {s} /\ counts2[s] = 1
          /\ \A t \in DOMAIN counts : t # s /\ counts2[t] = counts[t]
      BY <2>3, <3>1
    <3>3. Cardinality(DOMAIN counts) < MaxSources BY <1>10, <2>3
    <3>4. \A d \in seen : told[d] \in DOMAIN counts BY <1>10, <3>3
    <3>5. Of(s) = {} BY <2>3, <3>4 DEF Of
    <3>6. Cardinality(Of2(s)) = 1 BY <1>8, <3>5, FS_EmptySet
    <3>7. \A t \in DOMAIN counts2 : t \in CallSources => counts2[t] = Cardinality(Of2(t)) BY <1>5, <1>9, <3>2, <3>6
    <3>8. IsFiniteSet(DOMAIN counts2) /\ Cardinality(DOMAIN counts2) = Cardinality(DOMAIN counts) + 1
      BY <1>10, <2>3, <3>2, FS_AddElement
    <3>9. Cardinality(DOMAIN counts2) <= MaxSources BY <1>10, <3>3, <3>8
    <3>10. \A d \in seen2 : told2[d] \in DOMAIN counts2 BY <1>1, <1>4, <3>2, <3>4
    <3>11. counts2 \in [DOMAIN counts2 -> Nat] BY <1>10, <3>1, <3>2
    <3>12. DOMAIN counts2 \subseteq CallSources \cup Files BY <1>10, <3>2
    <3>13. QED BY <3>7, <3>8, <3>9, <3>10, <3>11, <3>12
  <2>4. QED BY <2>1, <2>2, <2>3
<1>12. SR!IndexTrue(seen2, counts2, told2) BY SRSizes, <1>3, <1>4, <1>11 DEF SR!IndexTrue, Of2
<1>13. QED BY <1>1, <1>2, <1>12

\* A file that is told of.
LEMMA FileAdded ==
  ASSUME SR!SourceAssumption, NEW seen, NEW counts, NEW told, SR!IndexTrue(seen, counts, told), NEW f \in Files
  PROVE  SR!IndexTrue(seen, SR!AddTo(counts, f, 0), told)
<1>1. PICK counts2 : counts2 = SR!AddTo(counts, f, 0) OBVIOUS
<1>2. /\ IsFiniteSet(DOMAIN counts) /\ counts \in [DOMAIN counts -> Nat] /\ DOMAIN counts \subseteq CallSources \cup Files
      /\ Cardinality(DOMAIN counts) <= MaxSources /\ Cardinality(DOMAIN counts) \in Nat /\ MaxSources \in Nat
  BY SRSizes, FS_CardinalityType DEF SR!IndexTrue, SR!SourceAssumption
<1>3. CASE f \in DOMAIN counts
  <2>1. counts2 = [counts EXCEPT ![f] = @ + 0] BY <1>1, <1>3 DEF SR!AddTo
  <2>2. counts2 = counts
    <3>1. counts[f] + 0 = counts[f] BY <1>2, <1>3
    <3>2. QED BY <1>2, <2>1, <3>1
  <2>3. QED BY <1>1, <2>2
<1>4. CASE f \notin DOMAIN counts /\ Cardinality(DOMAIN counts) >= MaxSources BY SRSizes, <1>1, <1>4 DEF SR!AddTo
<1>5. CASE f \notin DOMAIN counts /\ ~(Cardinality(DOMAIN counts) >= MaxSources)
  <2>1. counts2 = [t \in DOMAIN counts \cup {f} |-> IF t = f THEN 0 ELSE counts[t]] BY SRSizes, <1>1, <1>5 DEF SR!AddTo
  <2>2. /\ DOMAIN counts2 = DOMAIN counts \cup {f} /\ counts2[f] = 0
        /\ \A t \in DOMAIN counts : t # f /\ counts2[t] = counts[t]
    BY <1>5, <2>1
  <2>3. Cardinality(DOMAIN counts) < MaxSources BY <1>2, <1>5
  <2>4. \A d \in seen : told[d] \in DOMAIN counts BY SRSizes, <2>3 DEF SR!IndexTrue
  <2>5. {d \in seen : told[d] = f} = {} BY <1>5, <2>4
  <2>6. Cardinality({d \in seen : told[d] = f}) = 0 BY <2>5, FS_EmptySet
  <2>7. \A t \in DOMAIN counts2 : t \in CallSources => counts2[t] = Cardinality({d \in seen : told[d] = t})
    <3>1. SUFFICES ASSUME NEW t \in DOMAIN counts2, t \in CallSources
                   PROVE  counts2[t] = Cardinality({d \in seen : told[d] = t})
      OBVIOUS
    <3>2. CASE t = f BY <2>2, <2>6, <3>2
    <3>3. CASE t # f
      <4>1. t \in DOMAIN counts /\ counts2[t] = counts[t] BY <2>2, <3>3
      <4>2. counts[t] = Cardinality({d \in seen : told[d] = t}) BY SRSizes, <3>1, <4>1 DEF SR!IndexTrue
      <4>3. QED BY <4>1, <4>2
    <3>4. QED BY <3>2, <3>3
  <2>8. IsFiniteSet(DOMAIN counts2) /\ Cardinality(DOMAIN counts2) = Cardinality(DOMAIN counts) + 1
    BY <1>2, <1>5, <2>2, FS_AddElement
  <2>9. Cardinality(DOMAIN counts2) <= MaxSources BY <1>2, <2>3, <2>8
  <2>10. \A d \in seen : told[d] \in DOMAIN counts2 BY <2>2, <2>4
  <2>11. counts2 \in [DOMAIN counts2 -> Nat] BY <1>2, <2>1, <2>2
  <2>12. DOMAIN counts2 \subseteq CallSources \cup Files BY <1>2, <2>2
  <2>13. SR!IndexTrue(seen, counts2, told) BY SRSizes, <2>7, <2>8, <2>9, <2>10, <2>11, <2>12 DEF SR!IndexTrue
  <2>14. QED BY <1>1, <2>13
<1>6. QED BY <1>3, <1>4, <1>5

\* What has been told after the first of some events.
ToldIn(new, n) == {new[m].call : m \in {m \in 1 .. n : "call" \in DOMAIN new[m]}}
ToldWith(told, new, n) ==
  [c \in DOMAIN told \cup ToldIn(new, n) |-> IF c \in DOMAIN told THEN told[c] ELSE new[SR!FirstOf(new, c)].source]

LEMMA EventShape ==
  ASSUME NEW e \in SR!ToolEvents \cup SR!FileEvents
  PROVE  \/ /\ e \in SR!ToolEvents /\ "call" \in DOMAIN e /\ e.call \in Calls /\ e.source \in CallSources
         \/ /\ e \in SR!FileEvents /\ "call" \notin DOMAIN e /\ e.file \in Files
<1>1. CASE e \in SR!ToolEvents BY <1>1 DEF SR!ToolEvents
<1>2. CASE e \in SR!FileEvents BY <1>2 DEF SR!FileEvents
<1>3. QED BY <1>1, <1>2

\* One more of some events is indexed.
LEMMA EventIndexed ==
  ASSUME SR!SourceAssumption, NEW new \in Seq(SR!ToolEvents \cup SR!FileEvents), NEW told, NEW n \in Nat, n + 1 \in 1 .. Len(new),
         NEW i, SR!IndexTrue(i[1], i[2], ToldWith(told, new, n)),
         NEW j, j = SR!IndexEvent(i, new[n + 1])
  PROVE  SR!IndexTrue(j[1], j[2], ToldWith(told, new, n + 1))
<1>1. PICK e : e = new[n + 1] OBVIOUS
<1>2. e \in SR!ToolEvents \cup SR!FileEvents BY <1>1
<1>3. PICK had : had = ToldWith(told, new, n) OBVIOUS
<1>4. PICK has : has = ToldWith(told, new, n + 1) OBVIOUS
<1>5. SR!IndexTrue(i[1], i[2], had) BY <1>3
<1>6. 1 .. (n + 1) = (1 .. n) \cup {n + 1} OBVIOUS
<1>7. CASE e \in SR!FileEvents /\ "call" \notin DOMAIN e /\ e.file \in Files
  <2>1. ToldIn(new, n + 1) = ToldIn(new, n) BY <1>1, <1>6, <1>7 DEF ToldIn
  <2>2. has = had BY <1>3, <1>4, <2>1 DEF ToldWith
  <2>3. j = <<i[1], SR!AddTo(i[2], e.file, 0)>> BY <1>1, <1>7 DEF SR!IndexEvent
  <2>4. SR!IndexTrue(i[1], SR!AddTo(i[2], e.file, 0), had) BY <1>5, <1>7, FileAdded
  <2>5. QED BY <1>4, <2>2, <2>3, <2>4
<1>8. CASE e \in SR!ToolEvents /\ "call" \in DOMAIN e /\ e.call \in Calls /\ e.source \in CallSources
  <2>1. ToldIn(new, n + 1) = ToldIn(new, n) \cup {e.call} BY <1>1, <1>6, <1>8 DEF ToldIn
  <2>2. j = SR!IndexCall(i, e.call, e.source) BY <1>1, <1>8 DEF SR!IndexEvent
  <2>3. DOMAIN had = i[1] /\ DOMAIN had = DOMAIN told \cup ToldIn(new, n) BY <1>3, <1>5 DEF SR!IndexTrue, ToldWith
  <2>4. CASE e.call \in i[1]
    <3>1. has = had BY <1>3, <1>4, <2>1, <2>3, <2>4 DEF ToldWith
    <3>2. j = i BY <2>2, <2>4 DEF SR!IndexCall, SR!Counts, SR!CountsOnce
    <3>3. QED BY <1>4, <1>5, <3>1, <3>2
  <2>5. CASE e.call \notin i[1]
    <3>1. j = <<i[1] \cup {e.call}, SR!AddTo(i[2], e.source, 1)>> BY <2>2, <2>5 DEF SR!IndexCall, SR!Counts, SR!CountsOnce
    <3>2. \A m \in 1 .. n : ~SR!TellsCall(new[m], e.call)
      BY <2>3, <2>5 DEF SR!TellsCall, ToldIn
    <3>3. SR!FirstOf(new, e.call) = n + 1
      <4> DEFINE First(k) == k \in DOMAIN new /\ SR!TellsCall(new[k], e.call) /\ \A m \in DOMAIN new : SR!TellsCall(new[m], e.call) => k <= m
      <4>1. DOMAIN new = 1 .. Len(new) /\ Len(new) \in Nat OBVIOUS
      <4>2. SR!TellsCall(new[n + 1], e.call) BY <1>1, <1>8 DEF SR!TellsCall
      <4>3. \A m \in DOMAIN new : SR!TellsCall(new[m], e.call) => n + 1 <= m BY <3>2, <4>1
      <4>4. First(n + 1) BY <4>1, <4>2, <4>3
      <4>5. \A k : First(k) => k = n + 1
        <5>1. SUFFICES ASSUME NEW k, First(k) PROVE k = n + 1 OBVIOUS
        <5>2. k \in DOMAIN new /\ k <= n + 1 /\ n + 1 <= k BY <4>1, <4>2, <4>3, <5>1
        <5>3. QED BY <4>1, <5>2
      <4>6. SR!FirstOf(new, e.call) = CHOOSE k : First(k) BY DEF SR!FirstOf
      <4> HIDE DEF First
      <4>7. QED BY <4>4, <4>5, <4>6
    <3>4. has = [d \in i[1] \cup {e.call} |-> IF d = e.call THEN e.source ELSE had[d]]
      <4>1. DOMAIN told \cup ToldIn(new, n + 1) = i[1] \cup {e.call} BY <2>1, <2>3
      <4>2. \A d \in i[1] : had[d] = IF d \in DOMAIN told THEN told[d] ELSE new[SR!FirstOf(new, d)].source
        BY <1>3, <2>3 DEF ToldWith
      <4>3. e.call \notin DOMAIN told /\ new[SR!FirstOf(new, e.call)].source = e.source BY <1>1, <2>3, <2>5, <3>3
      <4>4. QED BY <1>4, <2>5, <4>1, <4>2, <4>3 DEF ToldWith
    <3>5. SR!IndexTrue(i[1] \cup {e.call}, SR!AddTo(i[2], e.source, 1), has) BY <1>5, <1>8, <2>5, <3>4, CallCounted
    <3>6. QED BY <1>4, <3>1, <3>5
  <2>6. QED BY <2>4, <2>5
<1>9. QED BY <1>2, <1>7, <1>8, EventShape

\* Some events are indexed once more.
LEMMA EventsIndexed ==
  ASSUME SR!SourceAssumption, NEW new \in Seq(SR!ToolEvents \cup SR!FileEvents), NEW seen, NEW counts, NEW told,
         SR!IndexTrue(seen, counts, told), NEW i, i = SR!Indexed(<<seen, counts>>, new)
  PROVE  SR!IndexTrue(i[1], i[2], ToldWith(told, new, Len(new)))
<1>1. Len(new) \in Nat OBVIOUS
<1>2. PICK f : IndexRuns(<<seen, counts>>, new, Len(new), f) /\ i = f[Len(new)] BY <1>1, IndexedRuns
<1> DEFINE Right(n) == SR!IndexTrue(f[n][1], f[n][2], ToldWith(told, new, n))
           S == {n \in Nat : n <= Len(new) => Right(n)}
<1>3. f[0] = <<seen, counts>> /\ \A n \in 1 .. Len(new) : f[n] = SR!IndexEvent(f[n - 1], new[n])
  <2>1. \A n \in 0 .. Len(new) : f[n] = IF n = 0 THEN <<seen, counts>> ELSE SR!IndexEvent(f[n - 1], new[n])
    BY <1>2 DEF IndexRuns
  <2>2. 0 \in 0 .. Len(new) /\ \A n \in 1 .. Len(new) : n \in 0 .. Len(new) /\ n # 0 BY <1>1
  <2>3. QED BY <2>1, <2>2
<1>4. 0 \in S
  <2>1. ToldIn(new, 0) = {} BY DEF ToldIn
  <2>2. told = [c \in DOMAIN told |-> told[c]] BY DEF SR!IndexTrue
  <2>3. ToldWith(told, new, 0) = [c \in DOMAIN told |-> told[c]] BY <2>1 DEF ToldWith
  <2>4. f[0][1] = seen /\ f[0][2] = counts BY <1>3
  <2>5. Right(0) BY <2>2, <2>3, <2>4
  <2> HIDE DEF Right
  <2>6. QED BY <2>5
<1>5. ASSUME NEW n \in Nat, n \in S PROVE n + 1 \in S
  <2>1. SUFFICES ASSUME n + 1 <= Len(new) PROVE Right(n + 1) OBVIOUS
  <2>2. n + 1 \in 1 .. Len(new) /\ n <= Len(new) /\ (n + 1) - 1 = n BY <1>1, <2>1
  <2>3. Right(n) BY <1>5, <2>2
  <2>4. f[n + 1] = SR!IndexEvent(f[n], new[n + 1]) BY <1>3, <2>2
  <2>5. QED BY <2>2, <2>3, <2>4, EventIndexed
<1> HIDE DEF S
<1>6. Nat \subseteq S BY <1>4, <1>5, NatSetInduction
<1>7. Len(new) \in S /\ Len(new) <= Len(new) BY <1>1, <1>6
<1>8. Right(Len(new)) BY <1>7 DEF S
<1>9. QED BY <1>2, <1>8

\* Nothing is told, and nothing counted, at first.
LEMMA InitSources == ASSUME SR!SourceAssumption, OldEvents \in Seq(SR!ToolEvents), SR!Init PROVE SR!SourcesKept
<1>1. x1 \in Seq(SR!ToolEvents \cup SR!FileEvents)
  <2>1. x1 \in Seq(SR!ToolEvents) BY DEF SR!Init
  <2>2. \A n \in 1 .. Len(x1) : x1[n] \in SR!ToolEvents BY <2>1
  <2>3. x1 \in [1 .. Len(x1) -> SR!ToolEvents \cup SR!FileEvents] /\ Len(x1) \in Nat BY <2>1, <2>2
  <2>4. QED BY <2>3
<1>2. x2 = {} /\ x3 = [s \in {} |-> 0] /\ x4 = [c \in {} |-> 0] /\ x5 = {} /\ x6 \in Files BY DEF SR!Init
<1>3. DOMAIN x3 = {} /\ DOMAIN x4 = {} BY <1>2
<1>4. IsFiniteSet({}) /\ Cardinality({}) = 0 BY FS_EmptySet
<1>5. 0 <= MaxSources /\ 0 <= MaxGrants BY DEF SR!SourceAssumption
<1>6. SR!IndexTrue(x2, x3, x4)
  <2>1. x3 \in [DOMAIN x3 -> Nat] BY <1>2, <1>3
  <2>2. x4 = [c \in x2 |-> x4[c]] BY <1>2
  <2>3. IsFiniteSet(x2) /\ DOMAIN x4 = x2 /\ x2 \subseteq Calls BY <1>2, <1>3, <1>4
  <2>4. QED BY SRSizes, <1>2, <1>3, <1>4, <1>5, <2>1, <2>2, <2>3 DEF SR!IndexTrue
<1>7. QED BY SRSizes, <1>1, <1>2, <1>4, <1>5, <1>6 DEF SR!SourcesKept

\* A call is told, as an event or by the adapter.
LEMMA ToldSources ==
  ASSUME SR!SourceAssumption, SR!SourcesKept, NEW c \in Calls, NEW s \in CallSources, SR!Told(c, s),
         NEW i, i = SR!IndexCall(SR!Index, c, s), x2' = i[1], x3' = i[2]
  PROVE  SR!IndexTrue(x2', x3', x4')
<1>1. SR!IndexTrue(x2, x3, x4) /\ SR!Index[1] = x2 /\ SR!Index[2] = x3 BY DEF SR!SourcesKept, SR!Index
<1>2. DOMAIN x4 = x2 BY <1>1 DEF SR!IndexTrue
<1>3. CASE c \in x2
  <2>1. i = SR!Index BY <1>1, <1>3 DEF SR!IndexCall, SR!Counts, SR!CountsOnce
  <2>2. x4' = x4
    <3>1. x4 = [d \in x2 |-> x4[d]] BY <1>1 DEF SR!IndexTrue
    <3>2. QED BY <1>2, <1>3, <3>1 DEF SR!Told
  <2>3. QED BY <1>1, <2>1, <2>2
<1>4. CASE c \notin x2
  <2>1. i = <<x2 \cup {c}, SR!AddTo(x3, s, 1)>> BY <1>1, <1>4 DEF SR!IndexCall, SR!Counts, SR!CountsOnce
  <2>2. x4' = [d \in x2 \cup {c} |-> IF d = c THEN s ELSE x4[d]] BY <1>2, <1>4 DEF SR!Told
  <2>3. SR!IndexTrue(x2 \cup {c}, SR!AddTo(x3, s, 1), x4') BY <1>1, <1>4, <2>2, CallCounted
  <2>4. QED BY <2>1, <2>3
<1>5. QED BY <1>3, <1>4

\* Every step keeps it.
LEMMA NextSources ==
  ASSUME SR!SourceAssumption, OldEvents \in Seq(SR!ToolEvents), SR!SourcesKept, [SR!Next]_(SR!vars) PROVE SR!SourcesKept'
<1>1. /\ x1 \in Seq(SR!ToolEvents \cup SR!FileEvents) /\ x6 \in Files \cup {"gone"}
      /\ IsFiniteSet(x5) /\ x5 \subseteq Files /\ Cardinality(x5) <= MaxGrants
      /\ SR!IndexTrue(x2, x3, x4)
  BY SRSizes DEF SR!SourcesKept
<1>2. ASSUME NEW c \in Calls, NEW s \in CallSources, SR!Tool(c, s) PROVE SR!SourcesKept'
  <2>1. SR!IndexTrue(x2', x3', x4') BY <1>2, ToldSources DEF SR!Tool
  <2>2. [call |-> c, source |-> s] \in SR!ToolEvents BY DEF SR!ToolEvents
  <2>3. x1' \in Seq(SR!ToolEvents \cup SR!FileEvents) BY <1>1, <1>2, <2>2 DEF SR!Tool
  <2>4. UNCHANGED <<x5, x6>> BY <1>2 DEF SR!Tool
  <2>5. QED BY <1>1, <2>1, <2>3, <2>4 DEF SR!SourcesKept
<1>3. ASSUME NEW c \in Calls, NEW s \in CallSources, SR!Observe(c, s) PROVE SR!SourcesKept'
  <2>1. SR!IndexTrue(x2', x3', x4') BY <1>3, ToldSources DEF SR!Observe
  <2>2. UNCHANGED <<x1, x5, x6>> BY <1>3 DEF SR!Observe
  <2>3. QED BY <1>1, <2>1, <2>2 DEF SR!SourcesKept
<1>4. ASSUME NEW f \in Files, SR!Message(f) PROVE SR!SourcesKept'
  <2>1. x3' = SR!AddTo(x3, f, 0) /\ UNCHANGED <<x2, x4, x5, x6>> BY <1>4 DEF SR!Message
  <2>2. SR!IndexTrue(x2, SR!AddTo(x3, f, 0), x4) BY <1>1, FileAdded
  <2>3. SR!IndexTrue(x2', x3', x4') BY <2>1, <2>2
  <2>4. [file |-> f] \in SR!FileEvents BY DEF SR!FileEvents
  <2>5. x1' \in Seq(SR!ToolEvents \cup SR!FileEvents) BY <1>1, <1>4, <2>4 DEF SR!Message
  <2>6. QED BY <1>1, <2>1, <2>3, <2>5 DEF SR!SourcesKept
<1>5. CASE SR!List
  <2>1. PICK recent : recent = SR!Recent OBVIOUS
  <2>2. recent \in Seq(SR!ToolEvents \cup SR!FileEvents)
    <3>1. SourceWindow \in Nat /\ Len(x1) \in Nat BY <1>1 DEF SR!SourceAssumption
    <3>2. QED BY <1>1, <2>1, <3>1 DEF SR!Recent
  <2>3. PICK i : i = SR!Indexed(<<x2, x3>>, recent) OBVIOUS
  <2>4. x2' = i[1] /\ x3' = i[2] /\ UNCHANGED <<x1, x5, x6>> BY <1>5, <2>1, <2>3 DEF SR!List, SR!Index
  <2>5. x4' = ToldWith(x4, recent, Len(recent))
    <3>1. DOMAIN recent = 1 .. Len(recent) BY <2>2
    <3>2. {recent[n].call : n \in {n \in DOMAIN recent : "call" \in DOMAIN recent[n]}} = ToldIn(recent, Len(recent))
      BY <3>1 DEF ToldIn
    <3>3. QED BY <1>5, <2>1, <3>2 DEF SR!List, ToldWith
  <2>6. SR!IndexTrue(i[1], i[2], ToldWith(x4, recent, Len(recent))) BY <1>1, <2>2, <2>3, EventsIndexed
  <2>7. SR!IndexTrue(x2', x3', x4') BY <2>4, <2>5, <2>6
  <2>8. QED BY <1>1, <2>4, <2>7 DEF SR!SourcesKept
<1>6. ASSUME NEW f \in Files, SR!Grant(f) PROVE SR!SourcesKept'
  <2>1. UNCHANGED <<x1, x2, x3, x4, x6>> BY <1>6 DEF SR!Grant
  <2>2. SR!IndexTrue(x2', x3', x4') BY <1>1, <2>1
  <2>3. IsFiniteSet(x5') /\ Cardinality(x5') <= MaxGrants
    <3>1. CASE f \in x5
      <4>1. x5' = x5 BY <1>6, <3>1 DEF SR!Grant
      <4>2. QED BY <1>1, <4>1
    <3>2. CASE f \notin x5
      <4>1. x5' = x5 \cup {f} /\ Cardinality(x5) < MaxGrants BY SRSizes, <1>6, <3>2 DEF SR!Grant
      <4>2. IsFiniteSet(x5') /\ Cardinality(x5') = Cardinality(x5) + 1 /\ Cardinality(x5) \in Nat
        BY <1>1, <3>2, <4>1, FS_AddElement, FS_CardinalityType
      <4>3. QED BY <4>1, <4>2 DEF SR!SourceAssumption
    <3>3. QED BY <3>1, <3>2
  <2>4. x5' \subseteq Files BY <1>1, <1>6 DEF SR!Grant
  <2>5. QED BY SRSizes, <1>1, <2>1, <2>2, <2>3, <2>4 DEF SR!SourcesKept
<1>7. ASSUME NEW f, x5' = x5 \ {f}, UNCHANGED <<x1, x2, x3, x4, x6>> PROVE SR!SourcesKept'
  <2>1. SR!IndexTrue(x2', x3', x4') BY <1>1, <1>7
  <2>2. IsFiniteSet(x5') /\ Cardinality(x5') <= Cardinality(x5) /\ Cardinality(x5) \in Nat /\ Cardinality(x5') \in Nat
    <3>1. x5' \subseteq x5 BY <1>7
    <3>2. IsFiniteSet(x5') /\ Cardinality(x5') <= Cardinality(x5) BY <1>1, <3>1, FS_Subset
    <3>3. QED BY <1>1, <3>2, FS_CardinalityType
  <2>3. Cardinality(x5') <= MaxGrants BY <1>1, <2>2 DEF SR!SourceAssumption
  <2>4. QED BY SRSizes, <1>1, <1>7, <2>1, <2>2, <2>3 DEF SR!SourcesKept
<1>8. ASSUME x6' \in Files \cup {"gone"}, UNCHANGED <<x1, x2, x3, x4, x5>> PROVE SR!SourcesKept'
  <2>1. SR!IndexTrue(x2', x3', x4') BY <1>1, <1>8
  <2>2. QED BY <1>1, <1>8, <2>1 DEF SR!SourcesKept
<1>9. CASE SR!Goes BY <1>8, <1>9 DEF SR!Goes
<1>10. CASE SR!RevokeAlias BY <1>7, <1>10 DEF SR!RevokeAlias
<1>11. ASSUME NEW f \in Files, SR!Message(f) \/ SR!Links(f) \/ SR!Grant(f) \/ SR!Revoke(f) PROVE SR!SourcesKept'
  <2>1. CASE SR!Links(f) BY <1>8, <2>1 DEF SR!Links
  <2>2. CASE SR!Revoke(f) BY <1>7, <2>2 DEF SR!Revoke
  <2>3. QED BY <1>4, <1>6, <1>11, <2>1, <2>2
<1>12. CASE UNCHANGED SR!vars
  <2>1. UNCHANGED <<x1, x2, x3, x4, x6>> /\ x5' = x5 BY <1>12 DEF SR!vars
  <2>2. SR!IndexTrue(x2', x3', x4') BY <1>1, <2>1
  <2>3. QED BY <1>1, <2>1, <2>2 DEF SR!SourcesKept
<1>13. CASE SR!Next
  <2>1. CASE \E c \in Calls, s \in CallSources : SR!Tool(c, s) \/ SR!Observe(c, s) BY <1>2, <1>3, <2>1
  <2>2. CASE \E f \in Files : SR!Message(f) \/ SR!Links(f) \/ SR!Grant(f) \/ SR!Revoke(f) BY <1>11, <2>2
  <2>3. CASE SR!List \/ SR!Goes \/ SR!RevokeAlias BY <1>5, <1>9, <1>10, <2>3
  <2>4. QED BY <1>13, <2>1, <2>2, <2>3 DEF SR!Next
<1>14. QED BY <1>12, <1>13

\* What the index shows is what was told.
LEMMA UsesTrue == ASSUME SR!SourcesKept PROVE SR!UsesExact /\ SR!TypeOK
<1>1. SR!IndexTrue(x2, x3, x4) /\ x5 \subseteq Files /\ Cardinality(x5) <= MaxGrants BY SRSizes DEF SR!SourcesKept
<1>2. DOMAIN x4 = x2 BY <1>1 DEF SR!IndexTrue
<1>3. SR!UsesExact BY <1>1, <1>2 DEF SR!IndexTrue, SR!UsesExact
<1>4. SR!TypeOK BY SRSizes, <1>1 DEF SR!IndexTrue, SR!TypeOK
<1>5. QED BY <1>3, <1>4

-----------------------------------------------------------------------------
(* Types.  Skills: whatever holds the slot of a daemon is a job of that daemon. *)

SlotsBack ==
  \A d \in HostDaemons : x3[d] # SK!None => x3[d] \in DOMAIN x4 /\ x4[x3[d]].daemon = d

LEMMA SkillType == ASSUME SK!SkillInv, SlotsBack PROVE SK!TypeOK
BY DEF SK!SkillInv, SK!JobsTyped, SK!TypeOK, SlotsBack

\* Jobs go on under the daemon they are of, or their slot is free.
LEMMA SlotsRest ==
  ASSUME SlotsBack, UNCHANGED x3, \A i \in DOMAIN x4 : i \in DOMAIN x4' /\ x4'[i].daemon = x4[i].daemon
  PROVE  SlotsBack'
BY DEF SlotsBack

LEMMA SlotsFreed ==
  ASSUME SlotsBack, NEW j, x3' = [d \in HostDaemons |-> IF x3[d] = j THEN SK!None ELSE x3[d]],
         \A i \in DOMAIN x4 : i # j => i \in DOMAIN x4' /\ x4'[i].daemon = x4[i].daemon
  PROVE  SlotsBack'
BY DEF SlotsBack

\* A job is told what it has found, or that others have changed the copies.
LEMMA JobGoes ==
  ASSUME SK!SkillInv, NEW j \in DOMAIN x4, NEW step, NEW found, SK!Goes(j, step, found)
  PROVE  UNCHANGED x3 /\ \A i \in DOMAIN x4 : i \in DOMAIN x4' /\ x4'[i].daemon = x4[i].daemon
<1>1. \A i \in DOMAIN x4 : x4[i] \in JobRecords BY DEF SK!SkillInv, SK!JobsTyped, JobRecords
<1>2. x4' = [x4 EXCEPT ![j].step = step, ![j].found = found] /\ UNCHANGED x3 BY DEF SK!Goes
<1>3. PICK r : r = [[x4[j] EXCEPT !.step = step] EXCEPT !.found = found] OBVIOUS
<1>4. x4[j] \in JobRecords BY <1>1
<1>5. r.daemon = x4[j].daemon BY <1>3, <1>4 DEF JobRecords
<1>6. x4' = [x4 EXCEPT ![j] = r] BY <1>2, <1>3
<1>7. QED BY <1>2, <1>5, <1>6

LEMMA JobsDisturbed ==
  ASSUME SK!SkillInv, NEW f, NEW d, \A i \in DOMAIN f : f[i] \in JobRecords
  PROVE  DOMAIN SK!Disturb(f, d) = DOMAIN f /\ \A i \in DOMAIN f : SK!Disturb(f, d)[i].daemon = f[i].daemon
<1>1. ASSUME NEW r \in JobRecords PROVE [r EXCEPT !.disturbed = TRUE].daemon = r.daemon BY DEF JobRecords
<1>2. QED BY <1>1 DEF SK!Disturb

LEMMA SlotsKept ==
  ASSUME SK!SkillAssumption, SK!SkillInv, SlotsBack, SK!Next
  PROVE  SlotsBack'
<1>1. /\ \A i \in DOMAIN x4 : x4[i] \in JobRecords /\ i \in Jobs /\ i # SK!None
      /\ x3 \in [HostDaemons -> Jobs \cup {SK!None}] /\ DOMAIN x4 \subseteq x5
  BY DEF SK!SkillInv, SK!JobsTyped, JobRecords, SK!SkillAssumption
<1>2. ASSUME NEW j \in Jobs, NEW d \in HostDaemons, SK!Change(j, d) \/ SK!Install(j, d) PROVE SlotsBack'
  <2>1. PICK r : SK!Start(j, d, r) /\ r.daemon = d
    <3>1. PICK kind, e, t, f : SK!Start(j, d, SK!Request(d, kind, e, t, f))
      BY <1>2, Zenon DEF SK!Change, SK!Install
    <3>2. SK!Request(d, kind, e, t, f).daemon = d BY DEF SK!Request
    <3>3. QED BY <3>1, <3>2
  <2>2. /\ j \notin DOMAIN x4 /\ x3' = [x3 EXCEPT ![d] = j]
        /\ x4' = [i \in DOMAIN x4 \cup {j} |-> IF i = j THEN r ELSE x4[i]]
    BY <1>1, <2>1 DEF SK!Start, SK!Put
  <2>3. QED BY <1>1, <2>1, <2>2 DEF SlotsBack
<1>3. ASSUME NEW j \in Jobs, SK!Timeout(j) PROVE SlotsBack'
  <2>1. j \in DOMAIN x4 /\ x4' = [x4 EXCEPT ![j].cancelled = TRUE] /\ UNCHANGED x3
    BY <1>3 DEF SK!Timeout, SK!SlotAfterTimeout, SK!SlotKept
  <2>2. [x4[j] EXCEPT !.cancelled = TRUE].daemon = x4[j].daemon BY <1>1, <2>1 DEF JobRecords
  <2>3. QED BY <2>1, <2>2, SlotsRest
<1>4. ASSUME NEW j \in Jobs, SK!Ends(j) \/ SK!Stop(j) PROVE SlotsBack'
  <2>1. x4' = SK!Less(x4, {j}) /\ x3' = [d \in HostDaemons |-> IF x3[d] = j THEN SK!None ELSE x3[d]]
    BY <1>4 DEF SK!Ends, SK!Stop
  <2> DEFINE left == SK!Less(x4, {j})
  <2>2. DOMAIN left = DOMAIN x4 \ {j} /\ \A i \in DOMAIN x4 \ {j} : left[i] = x4[i] BY LessIs
  <2>3. x4' = left BY <2>1
  <2> HIDE DEF left
  <2>4. QED BY <2>1, <2>2, <2>3, SlotsFreed
<1>5. ASSUME NEW j \in DOMAIN x4, NEW step, NEW found, SK!Goes(j, step, found) PROVE SlotsBack'
  BY <1>5, JobGoes, SlotsRest
<1>6. ASSUME NEW j \in Jobs, SK!Compare(j) \/ SK!Find(j) \/ SK!Aim(j) \/ SK!Absent(j) \/ SK!CopyFails(j) \/ SK!Decide(j)
      PROVE  SlotsBack'
  <2>1. j \in DOMAIN x4 BY <1>6 DEF SK!Compare, SK!Find, SK!Aim, SK!Absent, SK!CopyFails, SK!Decide, SK!At
  <2>2. SK!Ends(j) \/ \E step, found : SK!Goes(j, step, found)
    BY <1>6, Zenon DEF SK!Compare, SK!Find, SK!Aim, SK!Absent, SK!CopyFails, SK!Decide
  <2>3. QED BY <1>4, <1>5, <2>1, <2>2
<1>7. ASSUME NEW j \in Jobs, SK!Move(j) \/ SK!Place(j) PROVE SlotsBack'
  <2>1. x3' = [d \in HostDaemons |-> IF x3[d] = j THEN SK!None ELSE x3[d]] BY <1>7 DEF SK!Move, SK!Place, SK!Leave
  <2> DEFINE left == SK!Less(x4, {j})
  <2>2. x4' = left \/ \E d : x4' = SK!Disturb(left, d) BY <1>7 DEF SK!Move, SK!Place, SK!Rename
  <2>3. DOMAIN left = DOMAIN x4 \ {j} /\ \A i \in DOMAIN x4 \ {j} : left[i] = x4[i] BY LessIs
  <2> HIDE DEF left
  <2>4. \A i \in DOMAIN x4 : i # j => i \in DOMAIN x4' /\ x4'[i].daemon = x4[i].daemon
    <3>1. CASE x4' = left BY <2>3, <3>1
    <3>2. CASE \E d : x4' = SK!Disturb(left, d)
      <4>1. PICK d : x4' = SK!Disturb(left, d) BY <3>2
      <4>2. DOMAIN x4' = DOMAIN left /\ \A i \in DOMAIN left : x4'[i].daemon = left[i].daemon
        BY <1>1, <2>3, <4>1, JobsDisturbed
      <4>3. QED BY <2>3, <4>2
    <3>3. QED BY <2>2, <3>1, <3>2
  <2>5. QED BY <2>1, <2>4, SlotsFreed
<1>8. ASSUME NEW j \in Jobs, NEW k \in Jobs, SK!Recover(j, k) \/ SK!Removed(j) \/ SK!MakeStage(j) \/ SK!Lease(j) \/ SK!Copy(j)
      PROVE  SlotsBack'
  <2>1. j \in DOMAIN x4 /\ UNCHANGED x3
    BY <1>8 DEF SK!Recover, SK!Removed, SK!MakeStage, SK!Lease, SK!Copy, SK!At
  <2>2. \/ \E step, mine : x4' = [x4 EXCEPT ![j].step = step, ![j].mine = mine]
        \/ \E step : x4' = [x4 EXCEPT ![j].step = step]
    BY <1>8, Zenon DEF SK!Recover, SK!Removed, SK!MakeStage, SK!Lease, SK!Copy
  <2>3. ASSUME NEW step, NEW mine
        PROVE  /\ [x4[j] EXCEPT !.step = step].daemon = x4[j].daemon
               /\ [x4[j] EXCEPT !.step = step, !.mine = mine].daemon = x4[j].daemon
    BY <1>1, <2>1 DEF JobRecords
  <2>4. \A i \in DOMAIN x4 : i \in DOMAIN x4' /\ x4'[i].daemon = x4[i].daemon
    <3>1. CASE \E step, mine : x4' = [x4 EXCEPT ![j].step = step, ![j].mine = mine]
      <4>1. PICK step, mine : x4' = [x4 EXCEPT ![j].step = step, ![j].mine = mine] BY <3>1
      <4>2. PICK r : r = [x4[j] EXCEPT !.step = step, !.mine = mine] OBVIOUS
      <4>3. x4' = [x4 EXCEPT ![j] = r] /\ r.daemon = x4[j].daemon BY <2>3, <4>1, <4>2
      <4>4. QED BY <4>3
    <3>2. CASE \E step : x4' = [x4 EXCEPT ![j].step = step] BY <2>1, <2>3, <3>2
    <3>3. QED BY <2>2, <3>1, <3>2
  <2>5. QED BY <2>1, <2>4, SlotsRest
<1>9. ASSUME NEW d \in HostDaemons, SK!Crash(d) PROVE SlotsBack'
  <2>1. PICK dead : /\ dead = {j \in DOMAIN x4 : x4[j].daemon = d} /\ x4' = SK!Less(x4, dead)
                    /\ x3' = [x3 EXCEPT ![d] = SK!None]
    BY <1>9 DEF SK!Crash
  <2> DEFINE left == SK!Less(x4, dead)
  <2>2. DOMAIN left = DOMAIN x4 \ dead /\ \A i \in DOMAIN x4 \ dead : left[i] = x4[i] BY LessIs
  <2>3. x4' = left BY <2>1
  <2> HIDE DEF left
  <2>4. QED BY <1>1, <2>1, <2>2, <2>3 DEF SlotsBack
<1>10. CASE SK!Other
  <2>1. x4' = SK!Disturb(x4, SK!None) /\ UNCHANGED x3 BY <1>10 DEF SK!Other
  <2>2. QED BY <1>1, <2>1, JobsDisturbed, SlotsRest
<1>11. QED BY <1>2, <1>3, <1>4, <1>6, <1>7, <1>8, <1>9, <1>10 DEF SK!Next

-----------------------------------------------------------------------------
(* Providers of a host: what is on its way here is as well-formed as what is stored. *)

SentTyped == \A s \in x5 : s.agent \in Agents /\ s.id \in Ids /\ s.protocol \in Protocols /\ s.models \subseteq Models
HostTyped == HP!TypeOK /\ SentTyped

LEMMA HostStores ==
  ASSUME HostTyped, NEW r, NEW b, NEW h, HP!Stores(r, b, h), x5' \subseteq x5,
         DOMAIN r \subseteq Ids, \A id \in DOMAIN r : r[id].protocol \in Protocols /\ r[id].models \subseteq Models,
         DOMAIN b \subseteq Agents, DOMAIN h \subseteq Hosts \X Agents
  PROVE  HostTyped'
BY DEF HP!Stores, HostTyped, SentTyped, HP!TypeOK

\* What Set and Restrict leave.
LEMMA SetParts ==
  ASSUME NEW f, NEW i, NEW x
  PROVE  /\ DOMAIN HP!Set(f, i, x) = DOMAIN f \cup {i} /\ HP!Set(f, i, x)[i] = x
         /\ \A j \in DOMAIN f : j # i => HP!Set(f, i, x)[j] = f[j]
BY DEF HP!Set
LEMMA RestrictParts ==
  ASSUME NEW f, NEW s
  PROVE  /\ DOMAIN HP!Restrict(f, s) = s /\ \A j \in s : HP!Restrict(f, s)[j] = f[j]
         /\ DOMAIN HP!Without(f, s) = DOMAIN f \ s /\ \A j \in DOMAIN f \ s : HP!Without(f, s)[j] = f[j]
BY DEF HP!Restrict, HP!Without

LEMMA NextHost == ASSUME HostTyped, [HP!Next]_(HP!vars) PROVE HostTyped'
<1>1. /\ DOMAIN x1 \subseteq Ids /\ DOMAIN x2 \subseteq Agents /\ DOMAIN x3 \subseteq Hosts \X Agents
      /\ \A id \in DOMAIN x1 : x1[id].protocol \in Protocols /\ x1[id].models \subseteq Models
  BY DEF HostTyped, HP!TypeOK
<1>2. ASSUME NEW r, NEW b, DOMAIN r \subseteq Ids, DOMAIN b \subseteq Agents, x5' \subseteq x5,
             \A id \in DOMAIN r : r[id].protocol \in Protocols /\ r[id].models \subseteq Models,
             HP!Stores(HP!Restrict(r, HP!Needed(r, b, x3)), b, x3)
      PROVE  HostTyped'
  <2> DEFINE kept == HP!Restrict(r, HP!Needed(r, b, x3))
  <2>1. HP!Needed(r, b, x3) \subseteq DOMAIN r BY DEF HP!Needed, HP!NeededOwn
  <2>2. DOMAIN kept \subseteq DOMAIN r /\ \A id \in DOMAIN kept : kept[id] = r[id] BY <2>1, RestrictParts
  <2>3. HP!Stores(kept, b, x3) BY <1>2
  <2> HIDE DEF kept
  <2>4. QED BY <1>1, <1>2, <2>2, <2>3, HostStores
<1>3. ASSUME NEW id \in Ids, NEW q \in Protocols, NEW ms \in SUBSET Models, HP!Save(id, q, ms) PROVE HostTyped'
  <2>1. PICK new : /\ new.protocol = q /\ new.models = ms
                   /\ HP!Stores(HP!Set(x1, id, new), x2, x3) /\ UNCHANGED x5
    BY <1>3 DEF HP!Save
  <2> DEFINE f == HP!Set(x1, id, new)
  <2>2. DOMAIN f = DOMAIN x1 \cup {id} /\ f[id] = new /\ \A i \in DOMAIN x1 : i # id => f[i] = x1[i] BY DEF HP!Set
  <2>3. HP!Stores(f, x2, x3) BY <2>1
  <2> HIDE DEF f
  <2>4. QED BY <1>1, <2>1, <2>2, <2>3, HostStores
<1>4. ASSUME NEW id \in Ids, HP!Delete(id) PROVE HostTyped'
  <2> DEFINE f == HP!Without(x1, {id})
  <2>1. HP!Stores(f, x2, x3) /\ UNCHANGED x5 BY <1>4 DEF HP!Delete
  <2>2. DOMAIN f = DOMAIN x1 \ {id} /\ \A i \in DOMAIN f : f[i] = x1[i]
    <3>1. DOMAIN f = DOMAIN x1 \ {id} BY DEF HP!Without, HP!Restrict
    <3>2. ASSUME NEW i \in DOMAIN f PROVE f[i] = x1[i] BY <3>2 DEF HP!Without, HP!Restrict
    <3>3. QED BY <3>1, <3>2
  <2> HIDE DEF f
  <2>3. QED BY <1>1, <2>1, <2>2, HostStores
<1>5. ASSUME NEW id \in Ids, NEW a \in Agents, HP!Bind(a, id) PROVE HostTyped'
  <2> DEFINE b == HP!Set(x2, a, id)
  <2>1. HP!Stores(HP!Restrict(x1, HP!Needed(x1, b, x3)), b, x3) /\ UNCHANGED x5 BY <1>5 DEF HP!Bind, HP!Keep
  <2>2. DOMAIN b = DOMAIN x2 \cup {a} BY SetParts
  <2> HIDE DEF b
  <2>3. QED BY <1>1, <1>2, <2>1, <2>2
<1>6. ASSUME NEW a \in Agents, HP!Unbind(a) PROVE HostTyped'
  <2> DEFINE b == HP!Without(x2, {a})
  <2>1. HP!Stores(HP!Restrict(x1, HP!Needed(x1, b, x3)), b, x3) /\ UNCHANGED x5 BY <1>6 DEF HP!Unbind, HP!Keep
  <2>2. DOMAIN b = DOMAIN x2 \ {a} BY RestrictParts
  <2> HIDE DEF b
  <2>3. QED BY <1>1, <1>2, <2>1, <2>2
<1>7. ASSUME NEW id \in Ids, NEW a \in Agents, NEW host \in Hosts, HP!BindHost(host, a, id) PROVE HostTyped'
  <2> DEFINE h == HP!Set(x3, <<host, a>>, id)
  <2>1. HP!Stores(x1, x2, h) /\ UNCHANGED x5 BY <1>7 DEF HP!BindHost
  <2>2. DOMAIN h = DOMAIN x3 \cup {<<host, a>>} BY SetParts
  <2> HIDE DEF h
  <2>3. QED BY <1>1, <2>1, <2>2, HostStores
<1>8. ASSUME \/ \E host \in Hosts, a \in Agents : HP!UnbindHost(host, a)
             \/ \E host \in Hosts : HP!ForgetHost(host)
      PROVE  HostTyped'
  <2>1. PICK s : HP!Stores(x1, x2, HP!Without(x3, s)) /\ UNCHANGED x5
    BY <1>8, Zenon DEF HP!UnbindHost, HP!ForgetHost
  <2> DEFINE h == HP!Without(x3, s)
  <2>2. DOMAIN h = DOMAIN x3 \ s BY RestrictParts
  <2>3. HP!Stores(x1, x2, h) BY <2>1
  <2> HIDE DEF h
  <2>4. QED BY <1>1, <2>1, <2>2, <2>3, HostStores
<1>9. ASSUME NEW s \in x5, HP!Sync(s) PROVE HostTyped'
  <2>1. s.agent \in Agents /\ s.id \in Ids /\ s.protocol \in Protocols /\ s.models \subseteq Models
    BY DEF HostTyped, SentTyped
  <2> DEFINE b == HP!Set(x2, s.agent, s.id)
             new == [protocol |-> s.protocol, models |-> s.models, copied |-> TRUE, revision |-> x4 + 1]
             r == HP!Set(x1, s.id, new)
  <2>2. HP!Stores(HP!Restrict(r, HP!Needed(r, b, x3)), b, x3) /\ x5' = x5 \ {s} BY <1>9 DEF HP!Sync
  <2>3. DOMAIN b = DOMAIN x2 \cup {s.agent} BY DEF HP!Set
  <2>4. DOMAIN r = DOMAIN x1 \cup {s.id} /\ r[s.id] = new /\ \A i \in DOMAIN x1 : i # s.id => r[i] = x1[i] BY DEF HP!Set
  <2>5. new.protocol = s.protocol /\ new.models = s.models OBVIOUS
  <2> HIDE DEF b, r, new
  <2>6. QED BY <1>1, <1>2, <2>1, <2>2, <2>3, <2>4, <2>5
<1>10. ASSUME NEW a \in Agents, NEW id \in Ids, NEW q \in Protocols, NEW ms \in SUBSET Models, HP!Export(a, id, q, ms)
       PROVE  HostTyped'
  <2>1. PICK s : s.agent = a /\ s.id = id /\ s.protocol = q /\ s.models = ms /\ x5' = {s} /\ UNCHANGED <<x1, x2, x3>>
    BY <1>10 DEF HP!Export
  <2>2. QED BY <1>1, <2>1 DEF HostTyped, SentTyped, HP!TypeOK
<1>11. ASSUME UNCHANGED <<x1, x2, x3>>, x5' \subseteq x5 PROVE HostTyped'
  BY <1>11 DEF HostTyped, SentTyped, HP!TypeOK
<1>12. ASSUME \E s \in x5 : HP!Drop(s) PROVE HostTyped' BY <1>11, <1>12 DEF HP!Drop
<1>13. ASSUME NEW a, NEW p, NEW m, HP!Turn(a, p, m) PROVE HostTyped' BY <1>11, <1>13 DEF HP!Turn
<1>14. ASSUME UNCHANGED HP!vars PROVE HostTyped' BY <1>11, <1>14 DEF HP!vars
<1>15. QED
  BY <1>3, <1>4, <1>5, <1>6, <1>7, <1>8, <1>9, <1>10, <1>12, <1>13, <1>14 DEF HP!Next, HP!OldTurn

-----------------------------------------------------------------------------
(* Providers of the App: a configuration never has more records than it may. *)

RecordsFew(c) == IsFiniteSet(DOMAIN c.records) /\ Cardinality(DOMAIN c.records) <= MaxProviders

LEMMA ProvidersType == ASSUME IInv, RecordsFew(file) PROVE TypeOK
<1>1. file \in Configs BY DEF IInv, Good
<1>2. QED BY <1>1, ConfigParts DEF TypeOK, RecordsFew

LEMMA InitRecordsFew == ASSUME Init PROVE RecordsFew(file)
<1>1. MaxProviders \in Nat /\ 1 <= MaxProviders BY ProviderAssumption
<1>2. file \in Legacy BY DEF Init
<1>3. DOMAIN file.records = {} \/ \E i : DOMAIN file.records = {i}
  <2>1. CASE file = Empty
    <3>1. file.records = [p \in {} |-> None] BY <2>1 DEF Empty
    <3>2. QED BY <3>1
  <2>2. CASE \E i \in Ids, u \in Urls, q \in Protocols : file = LeftBehind(i, u, q)
    <3>1. PICK i, u, q : file = LeftBehind(i, u, q) BY <2>2
    <3>2. PICK r : r = [url |-> u, protocol |-> q, credential |-> u, revision |-> 0] OBVIOUS
    <3>3. file.records = [p \in {i} |-> r] BY <3>1, <3>2 DEF LeftBehind
    <3>4. QED BY <3>3
  <2>3. QED BY <1>2, <2>1, <2>2 DEF Legacy
<1>4. IsFiniteSet(DOMAIN file.records) /\ Cardinality(DOMAIN file.records) \in 0 .. 1
  <2>1. CASE DOMAIN file.records = {} BY <2>1, FS_EmptySet
  <2>2. CASE \E i : DOMAIN file.records = {i}
    <3>1. PICK i : DOMAIN file.records = {i} BY <2>2
    <3>2. IsFiniteSet({i}) /\ Cardinality({i}) = 1 BY FS_Singleton
    <3>3. QED BY <3>1, <3>2
  <2>3. QED BY <1>3, <2>1, <2>2
<1>5. QED BY <1>1, <1>4 DEF RecordsFew

LEMMA AppliedFew ==
  ASSUME NEW c, RecordsFew(c), NEW o \in Asked, Allowed(c, o), c \in Configs, NEW r
  PROVE  RecordsFew(Applied(c, o, r))
<1>1. c = [records |-> c.records, bound |-> c.bound] BY ConfigParts
<1>2. CASE o.kind = "save"
  <2>1. PICK new : Applied(c, o, r).records = Set(c.records, o.id, new) BY <1>1, <1>2 DEF Applied, Saved
  <2>2. DOMAIN Applied(c, o, r).records = DOMAIN c.records \cup {o.id} BY <2>1 DEF Set
  <2>3. Cardinality(DOMAIN c.records \cup {o.id}) <= MaxProviders BY <1>2 DEF Allowed, Saves
  <2>4. IsFiniteSet(DOMAIN c.records \cup {o.id}) BY FS_AddElement DEF RecordsFew
  <2>5. QED BY <2>2, <2>3, <2>4 DEF RecordsFew
<1>3. CASE o.kind \in {"bind", "unbind", "forget"}
  <2>1. Applied(c, o, r).records = c.records BY <1>1, <1>3 DEF Applied
  <2>2. QED BY <2>1 DEF RecordsFew
<1>4. CASE o.kind = "delete"
  <2>1. Applied(c, o, r).records = Without(c.records, {o.id}) BY <1>4 DEF Applied, Deleted
  <2>2. DOMAIN Applied(c, o, r).records = DOMAIN c.records \ {o.id} BY <2>1 DEF Without, Restrict
  <2>3. /\ IsFiniteSet(DOMAIN c.records \ {o.id})
        /\ Cardinality(DOMAIN c.records \ {o.id}) <= Cardinality(DOMAIN c.records)
    BY FS_Subset DEF RecordsFew
  <2>4. /\ Cardinality(DOMAIN c.records \ {o.id}) \in Nat /\ Cardinality(DOMAIN c.records) \in Nat
        /\ MaxProviders \in Nat
    BY <2>3, FS_CardinalityType, ProviderAssumption DEF RecordsFew
  <2>5. QED BY <2>2, <2>3, <2>4 DEF RecordsFew
<1>5. QED BY <1>2, <1>3, <1>4 DEF Asked

LEMMA NextRecordsFew == ASSUME IInv, RecordsFew(file), [Next]_vars PROVE RecordsFew(file')
<1>1. CASE UNCHANGED file BY <1>1
<1>2. ASSUME NEW w \in Windows, Persist(w) PROVE RecordsFew(file')
  <2>1. op[w] # Idle /\ copy[w] = file /\ op[w] \in Asked BY <1>2 DEF Persist, IInv, Serial
  <2>2. Allowed(file, op[w]) /\ file' = Applied(file, op[w], ops') /\ file \in Configs
    BY <1>2, <2>1 DEF Persist, IInv, Good
  <2>3. QED BY <2>1, <2>2, AppliedFew
<1>3. QED BY <1>1, <1>2 DEF Next, vars, Enter, Refuse, Fail

-----------------------------------------------------------------------------
(* The adapter of Claude: its collections never hold more than they may. *)

\* The library's words are the same in every module.
LEMMA CASizes == \A S : CA!Cardinality(S) = Cardinality(S) /\ (CA!IsFiniteSet(S) <=> IsFiniteSet(S))
BY DEF CA!Cardinality, Cardinality, CA!IsFiniteSet, IsFiniteSet

CountedIn(s, max) == IsFiniteSet(s) /\ Cardinality(s) <= max
ClaudeFinite == CountedIn(x2, MaxClaudeInputs) /\ CountedIn(x4, MaxAgents) /\ CountedIn(x5, MaxAgents) /\ CountedIn(x10, MaxStreams)
ClaudeSets ==
  /\ x1 \in {"idle", "opening", "initializing", "discovering", "running", "between", "finished"}
  /\ x2 \subseteq ClaudeInputs /\ x3 \subseteq x2 /\ x4 \cup x5 \cup x6 \cup x10 \subseteq Tools
  /\ x7 \in {"none", "idle", "running"} /\ x15 \in {"none", "a", "b"}
  /\ x21 \cup x22 \cup x23 \subseteq SkillNames /\ x22 \subseteq x21
ClaudeTyped == ClaudeSets /\ ClaudeFinite

LEMMA ClaudeType == ASSUME ClaudeTyped PROVE CA!TypeOK
BY CASizes DEF ClaudeTyped, ClaudeSets, ClaudeFinite, CountedIn, CA!TypeOK

\* What leaves a collection makes room, and one more fits in while there is some.
LEMMA FewerCounted ==
  ASSUME NEW max \in Nat, NEW s, CountedIn(s, max), NEW r \in SUBSET s
  PROVE  CountedIn(r, max)
<1>1. IsFiniteSet(r) /\ Cardinality(r) <= Cardinality(s) BY FS_Subset DEF CountedIn
<1>2. Cardinality(r) \in Nat /\ Cardinality(s) \in Nat BY <1>1, FS_CardinalityType DEF CountedIn
<1>3. QED BY <1>1, <1>2 DEF CountedIn
LEMMA OneMoreCounted ==
  ASSUME NEW max \in Nat, NEW s, CountedIn(s, max), NEW x, x \in s \/ Cardinality(s) < max
  PROVE  CountedIn(s \cup {x}, max)
<1>1. CASE x \in s
  <2>1. s \cup {x} = s BY <1>1
  <2>2. QED BY <2>1
<1>2. CASE x \notin s
  <2>1. IsFiniteSet(s \cup {x}) /\ Cardinality(s \cup {x}) = Cardinality(s) + 1 /\ Cardinality(s) \in Nat
    BY <1>2, FS_AddElement, FS_CardinalityType DEF CountedIn
  <2>2. QED BY <1>2, <2>1 DEF CountedIn
<1>3. QED BY <1>1, <1>2

LEMMA InitClaudeType == ASSUME CA!ClaudeAssumption, CA!Init PROVE ClaudeTyped
<1>1. CountedIn({}, MaxClaudeInputs) /\ CountedIn({}, MaxAgents) /\ CountedIn({}, MaxStreams)
  BY FS_EmptySet DEF CountedIn, CA!ClaudeAssumption
<1>2. ClaudeFinite BY <1>1 DEF CA!Init, ClaudeFinite
<1>3. QED BY <1>2 DEF CA!Init, ClaudeTyped, ClaudeSets

\* The phase, what was delivered, and the skills of the turn.
LEMMA ClaudeSetsKept == ASSUME ClaudeSets, CA!Next PROVE ClaudeSets'
<1> USE DEF ClaudeSets, CA!rigid, CA!ghosts, CA!turn, CA!agents, CA!texts, CA!titles, CA!skills
<1>1. ASSUME \/ \E state \in {"idle", "running"} : CA!SessionState(state)
             \/ CA!Open \/ CA!Initialized \/ CA!Trailing \/ CA!Rename
      PROVE  ClaudeSets'
  BY <1>1 DEF CA!SessionState, CA!Open, CA!Initialized, CA!Trailing, CA!Rename
<1>2. CASE CA!StartFirst BY <1>2 DEF CA!StartFirst, CA!Asks
<1>3. CASE CA!StartNext BY <1>3 DEF CA!StartNext
<1>4. CASE CA!Delta BY <1>4 DEF CA!Delta, CA!WakeReset, CA!ResetTurn
<1>5. CASE \E i \in ClaudeInputs : CA!Deliver(i) \/ CA!Acknowledge(i)
  BY <1>5 DEF CA!Deliver, CA!Acknowledge, CA!Named
<1>6. CASE \E t \in Tools \cup {"none"} : CA!Message(t) BY <1>6 DEF CA!Message, CA!WakeReset, CA!ResetTurn
<1>7. ASSUME NEW text, NEW failed, CA!EndOfTurn(text, failed), x4' \cup x5' \cup x6' \cup x10' \subseteq Tools,
             UNCHANGED <<x7, x15>>
      PROVE  ClaudeSets'
  BY <1>7 DEF CA!EndOfTurn, CA!ResetTurn
<1>8. CASE \E text \in {"", "same", "other"}, failed \in BOOLEAN : CA!Result(text, failed)
  BY <1>7, <1>8 DEF CA!Result
<1>9. CASE \E t \in Tools : CA!ChildDelta(t) \/ CA!ChildMessage(t) \/ CA!TaskStarted(t) \/ CA!TaskEnds(t)
  BY <1>9 DEF CA!ChildDelta, CA!ChildMessage, CA!TaskStarted, CA!TaskEnds
<1>10. CASE \E t \in Tools : CA!AgentResult(t)
  <2>1. PICK t \in Tools : CA!AgentResult(t) BY <1>10
  <2>2. CASE CA!OfChild(t) BY <2>1, <2>2 DEF CA!AgentResult
  <2>3. CASE ~CA!OfChild(t) BY <1>7, <2>1, <2>3 DEF CA!AgentResult
  <2>4. QED BY <2>2, <2>3
<1>11. CASE \E t \in Tools, done \in BOOLEAN : CA!ToolResult(t, done) BY <1>11 DEF CA!ToolResult
<1>12. CASE \/ \E ok \in BOOLEAN : CA!RenameAnswer(ok) \/ CA!TitleAnswer(ok)
            \/ \E s \in {"a", "b"} : CA!TitleChanged(s) \/ CA!NativeSession(s)
  BY <1>12 DEF CA!RenameAnswer, CA!TitleAnswer, CA!TitleChanged, CA!NativeSession
<1>13. CASE \E n \in SkillNames, replay, known \in BOOLEAN : CA!Expand(n, replay, known) BY <1>13 DEF CA!Expand
<1>14. CASE \E synthetic \in BOOLEAN : CA!SkillContext(synthetic) BY <1>14 DEF CA!SkillContext
<1>15. QED BY <1>1, <1>2, <1>3, <1>4, <1>5, <1>6, <1>8, <1>9, <1>10, <1>11, <1>12, <1>13, <1>14 DEF CA!Next

\* Most steps add nothing to the four collections that have a limit.
LEMMA ClaudeFewer ==
  ASSUME CA!ClaudeAssumption, ClaudeFinite, x2' \subseteq x2, x4' \subseteq x4, x5' = x5, x10' \subseteq x10
  PROVE  ClaudeFinite'
BY FewerCounted DEF ClaudeFinite, CA!ClaudeAssumption

LEMMA ClaudeFiniteKept == ASSUME CA!ClaudeAssumption, ClaudeFinite, CA!Next PROVE ClaudeFinite'
<1>1. MaxClaudeInputs \in Nat /\ MaxAgents \in Nat /\ MaxStreams \in Nat BY DEF CA!ClaudeAssumption
<1>2. CASE \E i \in ClaudeInputs : CA!Deliver(i)
  <2>1. PICK i \in ClaudeInputs : CA!Deliver(i) BY <1>2
  <2>2. x2' = x2 \cup {i} /\ Cardinality(x2) < MaxClaudeInputs /\ UNCHANGED <<x4, x5, x10>>
    BY <2>1, CASizes DEF CA!Deliver, CA!agents, CA!texts
  <2>3. CountedIn(x2 \cup {i}, MaxClaudeInputs) BY <1>1, <2>2, OneMoreCounted DEF ClaudeFinite
  <2>4. QED BY <2>2, <2>3 DEF ClaudeFinite
<1>3. CASE \E t \in Tools : CA!ChildDelta(t)
  <2>1. PICK t \in Tools : CA!ChildDelta(t) BY <1>3
  <2>2. /\ UNCHANGED <<x2, x4, x5>>
        /\ x10' = x10 \/ (x10' = x10 \cup {t} /\ (t \in x10 \/ ~(Cardinality(x10) >= MaxStreams)))
    BY <2>1, CASizes DEF CA!ChildDelta, CA!Skips, CA!SkipsOverflow, CA!turn, CA!agents
  <2>3. CASE x10' = x10 BY <2>2, <2>3 DEF ClaudeFinite
  <2>4. CASE x10' = x10 \cup {t} /\ (t \in x10 \/ ~(Cardinality(x10) >= MaxStreams))
    <3>1. Cardinality(x10) \in Nat BY FS_CardinalityType DEF ClaudeFinite, CountedIn
    <3>2. CountedIn(x10 \cup {t}, MaxStreams) BY <1>1, <2>4, <3>1, OneMoreCounted DEF ClaudeFinite
    <3>3. QED BY <2>2, <2>4, <3>2 DEF ClaudeFinite
  <2>5. QED BY <2>2, <2>3, <2>4
<1>4. CASE \E t \in Tools : CA!TaskStarted(t)
  <2>1. PICK t \in Tools : CA!TaskStarted(t) BY <1>4
  <2>2. /\ UNCHANGED <<x2, x10>> /\ x4' = x4 \cup {t} /\ Cardinality(x4) < MaxAgents
    BY <2>1, CASizes DEF CA!TaskStarted, CA!turn, CA!texts
  <2>3. PICK old \in SUBSET (x5 \ x4) :
          Cardinality(old) = (IF Cardinality(x5) >= MaxAgents THEN 1 ELSE 0) /\ x5' = (x5 \ old) \cup {t}
    BY <2>1, CASizes DEF CA!TaskStarted
  <2>4. IsFiniteSet(x5) /\ Cardinality(x5) <= MaxAgents /\ Cardinality(x5) \in Nat /\ Cardinality(x4) \in Nat
    BY FS_CardinalityType DEF ClaudeFinite, CountedIn
  <2>5. CountedIn(x5 \ old, MaxAgents) /\ Cardinality(x5 \ old) < MaxAgents
    <3>1. IsFiniteSet(x5 \ old) /\ Cardinality(x5 \ old) = Cardinality(x5) - Cardinality(x5 \cap old)
      BY <2>4, FS_Difference
    <3>2. x5 \cap old = old BY <2>3
    <3>3. QED BY <1>1, <2>2, <2>3, <2>4, <3>1, <3>2 DEF CountedIn
  <2>6. CountedIn(x5', MaxAgents) BY <1>1, <2>3, <2>5, OneMoreCounted
  <2>7. CountedIn(x4', MaxAgents) BY <1>1, <2>2, OneMoreCounted DEF ClaudeFinite
  <2>8. QED BY <2>2, <2>6, <2>7 DEF ClaudeFinite
<1>5. ASSUME NEW text, NEW failed, CA!EndOfTurn(text, failed) PROVE x2' \subseteq x2 BY <1>5 DEF CA!EndOfTurn
<1>6. CASE \E t \in Tools : CA!AgentResult(t)
  <2>1. PICK t \in Tools : CA!AgentResult(t) BY <1>6
  <2>2. x2' \subseteq x2 /\ x4' \subseteq x4 /\ x5' = x5 /\ x10' \subseteq x10
    BY <1>5, <2>1 DEF CA!AgentResult, CA!turn
  <2>3. QED BY <2>2, ClaudeFewer
<1>7. CASE \E text \in {"", "same", "other"}, failed \in BOOLEAN : CA!Result(text, failed)
  BY <1>5, <1>7, ClaudeFewer DEF CA!Result, CA!agents
<1>8. CASE \/ \E state \in {"idle", "running"} : CA!SessionState(state)
           \/ CA!Open \/ CA!StartFirst \/ CA!StartNext \/ CA!Initialized \/ CA!Delta \/ CA!Trailing \/ CA!Rename
           \/ \E i \in ClaudeInputs : CA!Acknowledge(i)
           \/ \E t \in Tools \cup {"none"} : CA!Message(t)
  BY <1>8, ClaudeFewer
  DEF CA!SessionState, CA!Open, CA!StartFirst, CA!StartNext, CA!Initialized, CA!Delta, CA!Trailing, CA!Rename,
      CA!Acknowledge, CA!Message, CA!turn, CA!agents, CA!texts
<1>9. CASE \/ \E t \in Tools : CA!ChildMessage(t) \/ CA!TaskEnds(t)
           \/ \E t \in Tools, done \in BOOLEAN : CA!ToolResult(t, done)
  BY <1>9, ClaudeFewer DEF CA!ChildMessage, CA!TaskEnds, CA!ToolResult, CA!turn, CA!agents, CA!texts
<1>10. CASE \/ \E ok \in BOOLEAN : CA!RenameAnswer(ok) \/ CA!TitleAnswer(ok)
            \/ \E s \in {"a", "b"} : CA!TitleChanged(s) \/ CA!NativeSession(s)
            \/ \E n \in SkillNames, replay, known \in BOOLEAN : CA!Expand(n, replay, known)
            \/ \E synthetic \in BOOLEAN : CA!SkillContext(synthetic)
  BY <1>10, ClaudeFewer
  DEF CA!RenameAnswer, CA!TitleAnswer, CA!TitleChanged, CA!NativeSession, CA!Expand, CA!SkillContext,
      CA!turn, CA!agents, CA!texts
<1>11. QED BY <1>2, <1>3, <1>4, <1>6, <1>7, <1>8, <1>9, <1>10 DEF CA!Next

LEMMA NextClaudeType ==
  ASSUME CA!ClaudeAssumption, ClaudeTyped, [CA!Next]_(CA!vars)
  PROVE  ClaudeTyped'
<1>1. CASE CA!Next BY <1>1, ClaudeSetsKept, ClaudeFiniteKept DEF ClaudeTyped
<1>2. CASE UNCHANGED CA!vars
  BY <1>2 DEF CA!vars, CA!turn, CA!agents, CA!texts, CA!titles, CA!skills, CA!rigid, CA!ghosts, ClaudeTyped,
              ClaudeSets, ClaudeFinite
<1>3. QED BY <1>1, <1>2

-----------------------------------------------------------------------------
(* The adapter of Traex: few requests wait at a time.                      *)

LEMMA TXSizes == \A S : TX!Cardinality(S) = Cardinality(S) /\ (TX!IsFiniteSet(S) <=> IsFiniteSet(S))
BY DEF TX!Cardinality, Cardinality, TX!IsFiniteSet, IsFiniteSet

\* The requests that carry a message, and those that carry none.
Steering(s) == {r \in s : r.input # "none"}
Plain(s) == IsFiniteSet(s) /\ \A r \in s : r.input = "none" /\ (r.method = "thread/name/set" => r = TX!Simple("thread/name/set"))
FewWait(t, s) ==
  /\ IsFiniteSet(t) /\ IsFiniteSet(s) /\ Cardinality(t) + Cardinality(Steering(s)) <= MaxTraexInputs
  /\ \A r \in s : r.method = "thread/name/set" => r = TX!Simple("thread/name/set")

LEMMA OneMore ==
  ASSUME NEW s, IsFiniteSet(s), NEW r
  PROVE  /\ IsFiniteSet(s \cup {r}) /\ Cardinality(s) \in Nat /\ Cardinality(s \cup {r}) \in Nat
         /\ Cardinality(s \cup {r}) <= Cardinality(s) + 1
<1>1. IsFiniteSet(s \cup {r}) /\ Cardinality(s \cup {r}) = (IF r \in s THEN Cardinality(s) ELSE Cardinality(s) + 1)
  BY FS_AddElement
<1>2. Cardinality(s) \in Nat BY FS_CardinalityType
<1>3. QED BY <1>1, <1>2

LEMMA TraexFew == TX!RequestsFew <=> FewWait(x5, x7) /\ x13 \subseteq TraexWork
BY TXSizes DEF TX!RequestsFew, FewWait, Steering

\* Requests that carry no message leave room, and so do answers.
LEMMA FewStill ==
  ASSUME MaxTraexInputs \in Nat, NEW t, NEW s, FewWait(t, s), NEW t1 \in SUBSET t, NEW s1, NEW d, Plain(d), s1 \subseteq s \cup d
  PROVE  FewWait(t1, s1)
<1>1. IsFiniteSet(s1) BY FS_Subset, FS_Union DEF FewWait, Plain
<1>2. IsFiniteSet(Steering(s)) /\ Steering(s1) \subseteq Steering(s) /\ IsFiniteSet(t)
  BY FS_Subset DEF FewWait, Plain, Steering
<1>3. IsFiniteSet(t1) /\ Cardinality(t1) <= Cardinality(t) /\ Cardinality(t1) \in Nat /\ Cardinality(t) \in Nat
  BY <1>2, FS_Subset, FS_CardinalityType
<1>4. /\ Cardinality(Steering(s1)) <= Cardinality(Steering(s)) /\ Cardinality(Steering(s1)) \in Nat
      /\ Cardinality(Steering(s)) \in Nat
  BY <1>2, FS_Subset, FS_CardinalityType
<1>5. Cardinality(t1) + Cardinality(Steering(s1)) <= MaxTraexInputs BY <1>3, <1>4 DEF FewWait
<1>6. QED BY <1>1, <1>3, <1>5 DEF FewWait, Plain

\* One that carries a message takes room, while there is some.
LEMMA FewAsked ==
  ASSUME MaxTraexInputs \in Nat, NEW t, NEW s, FewWait(t, s), NEW r, r.method = "turn/steer",
         Cardinality(t) + Cardinality(Steering(s)) < MaxTraexInputs
  PROVE  FewWait(t, s \cup {r})
<1>1. IsFiniteSet(s \cup {r}) /\ IsFiniteSet(Steering(s)) /\ IsFiniteSet(t) BY FS_AddElement, FS_Subset DEF FewWait, Steering
<1>2. IsFiniteSet(Steering(s) \cup {r}) /\ Cardinality(Steering(s) \cup {r}) <= Cardinality(Steering(s)) + 1
      /\ Cardinality(Steering(s)) \in Nat /\ Cardinality(t) \in Nat
  BY <1>1, OneMore, FS_CardinalityType
<1>3. Steering(s \cup {r}) \subseteq Steering(s) \cup {r} BY DEF Steering
<1>4. Cardinality(Steering(s \cup {r})) <= Cardinality(Steering(s) \cup {r}) /\ Cardinality(Steering(s \cup {r})) \in Nat
      /\ Cardinality(Steering(s) \cup {r}) \in Nat
  BY <1>2, <1>3, FS_Subset, FS_CardinalityType
<1>5. Cardinality(t) + Cardinality(Steering(s \cup {r})) <= MaxTraexInputs BY <1>2, <1>4
<1>6. QED BY <1>1, <1>5 DEF FewWait

\* A message that was asked for and is in its turn takes the same room.
LEMMA FewMoved ==
  ASSUME MaxTraexInputs \in Nat, NEW t, NEW s, FewWait(t, s), NEW r \in s, r.input # "none"
  PROVE  FewWait(t \cup {r.input}, s \ {r})
<1>1. IsFiniteSet(s \ {r}) /\ IsFiniteSet(Steering(s)) /\ IsFiniteSet(t) BY FS_Subset DEF FewWait, Steering
<1>2. Steering(s \ {r}) = Steering(s) \ {r} /\ r \in Steering(s) BY DEF Steering
<1>3. IsFiniteSet(t \cup {r.input}) /\ Cardinality(t \cup {r.input}) <= Cardinality(t) + 1 /\ Cardinality(t) \in Nat
      /\ Cardinality(t \cup {r.input}) \in Nat
  BY <1>1, FS_AddElement, FS_CardinalityType
<1>4. Cardinality(Steering(s \ {r})) = Cardinality(Steering(s)) - 1 /\ Cardinality(Steering(s)) \in Nat
  BY <1>1, <1>2, FS_RemoveElement, FS_CardinalityType
<1>5. Cardinality(t \cup {r.input}) + Cardinality(Steering(s \ {r})) <= MaxTraexInputs BY <1>3, <1>4 DEF FewWait
<1>6. QED BY <1>1, <1>3, <1>5 DEF FewWait

LEMMA PlainOnes == Plain({}) /\ \A r : r.input = "none" /\ (r.method = "thread/name/set" => r = TX!Simple("thread/name/set")) => Plain({r})
BY FS_EmptySet, FS_Singleton DEF Plain

\* What a step adds to the requests and to the messages of the turn.
FewMoves ==
  \/ x5' \subseteq x5 /\ \E d \in SUBSET (x7') : Plain(d) /\ x7' \subseteq x7 \cup d
  \/ /\ x5' = x5 /\ Cardinality(x5) + Cardinality(Steering(x7)) < MaxTraexInputs
     /\ \E r \in x7' : r.method = "turn/steer" /\ x7' = x7 \cup {r}
  \/ \E r \in x7 : r.input # "none" /\ x7' = x7 \ {r} /\ x5' = x5 \cup {r.input}

LEMMA FewKept == ASSUME MaxTraexInputs \in Nat, FewWait(x5, x7), FewMoves PROVE FewWait(x5, x7)'
<1>1. CASE x5' \subseteq x5 /\ \E d \in SUBSET (x7') : Plain(d) /\ x7' \subseteq x7 \cup d
  <2>1. PICK d \in SUBSET (x7') : Plain(d) /\ x7' \subseteq x7 \cup d BY <1>1
  <2>2. FewWait(x5', x7') BY <1>1, <2>1, FewStill
  <2>3. QED BY <2>2 DEF FewWait, Steering
<1>2. CASE /\ x5' = x5 /\ Cardinality(x5) + Cardinality(Steering(x7)) < MaxTraexInputs
           /\ \E r \in x7' : r.method = "turn/steer" /\ x7' = x7 \cup {r}
  <2>1. PICK r \in x7' : r.method = "turn/steer" /\ x7' = x7 \cup {r} BY <1>2
  <2>2. FewWait(x5', x7') BY <1>2, <2>1, FewAsked
  <2>3. QED BY <2>2 DEF FewWait, Steering
<1>3. CASE \E r \in x7 : r.input # "none" /\ x7' = x7 \ {r} /\ x5' = x5 \cup {r.input}
  <2>1. PICK r \in x7 : r.input # "none" /\ x7' = x7 \ {r} /\ x5' = x5 \cup {r.input} BY <1>3
  <2>2. FewWait(x5', x7') BY <2>1, FewMoved
  <2>3. QED BY <2>2 DEF FewWait, Steering
<1>4. QED BY <1>1, <1>2, <1>3 DEF FewMoves

LEMMA OnePlain == ASSUME x5' \subseteq x5, NEW r, Plain({r}), x7' \subseteq x7 \cup {r} PROVE FewMoves
<1>1. Plain({r} \cap x7') BY FS_Subset DEF Plain
<1>2. QED BY <1>1 DEF FewMoves
LEMMA NonePlain == ASSUME x5' \subseteq x5, x7' \subseteq x7 PROVE FewMoves
BY PlainOnes DEF FewMoves

LEMMA TraexFewAsks ==
  ASSUME TX!TraexAssumption, TX!TraexInv,
         \/ TX!Open \/ TX!Start \/ TX!Interrupt \/ TX!Rename
         \/ \E i \in TraexInputs : TX!Steer(i)
         \/ \E q \in TraexItems : TX!Approve(q)
  PROVE  FewMoves /\ x13' = x13
<1>1. x5' = x5 /\ x13' = x13
  BY Zenon DEF TX!Open, TX!Start, TX!Interrupt, TX!Rename, TX!Steer, TX!Approve, TX!turns, TX!inputs, TX!work
<1>2. CASE TX!Open
  <2>1. PICK r : r = [method |-> "initialize", turn |-> 0, input |-> "none"] OBVIOUS
  <2>2. x7' = x7 \cup {r} /\ r.input = "none" /\ r.method # "thread/name/set" BY <1>2, <2>1 DEF TX!Open, TX!Simple, TX!Req
  <2>3. QED BY <1>1, <2>2, PlainOnes, OnePlain
<1>3. CASE TX!Start
  <2>1. PICK r : r = [method |-> "turn/start", turn |-> 0, input |-> "none"] OBVIOUS
  <2>2. x7' = x7 \cup {r} /\ r.input = "none" /\ r.method # "thread/name/set" BY <1>3, <2>1 DEF TX!Start, TX!Simple, TX!Req
  <2>3. QED BY <1>1, <2>2, PlainOnes, OnePlain
<1>4. CASE TX!Interrupt
  <2>1. PICK r : r = [method |-> "turn/interrupt", turn |-> x2, input |-> "none"] OBVIOUS
  <2>2. x7' \subseteq x7 \cup {r} /\ r.input = "none" /\ r.method # "thread/name/set" BY <1>4, <2>1 DEF TX!Interrupt, TX!Req
  <2>3. QED BY <1>1, <2>2, PlainOnes, OnePlain
<1>5. CASE TX!Rename
  <2>1. PICK r : r = TX!Simple("thread/name/set") OBVIOUS
  <2>2. x7' = x7 \cup {r} /\ r.input = "none" BY <1>5, <2>1 DEF TX!Rename, TX!Simple, TX!Req
  <2>3. QED BY <1>1, <2>1, <2>2, PlainOnes, OnePlain
<1>6. CASE \E i \in TraexInputs : TX!Steer(i)
  <2>1. PICK i \in TraexInputs : TX!Steer(i) BY <1>6
  <2>2. PICK r : r = TX!Req("turn/steer", x2, i) OBVIOUS
  <2>3. r.method = "turn/steer" /\ x7' = x7 \cup {r} /\ r \in x7' BY <2>1, <2>2 DEF TX!Steer, TX!Req
  <2>4. Cardinality(x5) + Cardinality(Steering(x7)) < MaxTraexInputs BY <2>1, TXSizes DEF TX!Steer, Steering
  <2>5. QED BY <1>1, <2>3, <2>4 DEF FewMoves
<1>7. CASE \E q \in TraexItems : TX!Approve(q)
  <2>1. x7' = x7 BY <1>7, Zenon DEF TX!Approve
  <2>2. QED BY <1>1, <2>1, NonePlain
<1>8. QED BY <1>1, <1>2, <1>3, <1>4, <1>5, <1>6, <1>7

LEMMA TraexFewAdmits ==
  ASSUME TX!InputsSound, NEW n, NEW asked \in SUBSET x7, x1 = "starting", TX!AdmitTurn(n, asked) PROVE FewMoves /\ x13' = x13
<1>1. x13' = x13 /\ x5 = {} BY DEF TX!AdmitTurn, TX!work, TX!InputsSound
<1>2. PICK r : r = [method |-> "turn/interrupt", turn |-> n, input |-> "none"] OBVIOUS
<1>3. x7' \subseteq x7 \cup {r} /\ x5' \subseteq x5 /\ r.input = "none" /\ r.method # "thread/name/set"
  BY <1>1, <1>2 DEF TX!AdmitTurn, TX!Finished, TX!Req
<1>4. QED BY <1>1, <1>3, PlainOnes, OnePlain

LEMMA TraexFewAnswers ==
  ASSUME TX!TraexAssumption, TX!TraexInv, NEW a \in x19, TX!Response(a)
  PROVE  FewMoves /\ x13' = x13
<1>1. a.req \in x7 /\ TX!InputsSound /\ TX!RequestsSound BY DEF TX!TraexInv, TX!RequestsSound
<1>2. CASE a.req.method \in {"initialize", "config/read"}
  <2>1. PICK r : r = TX!Simple(IF a.req.method = "initialize" THEN "config/read" ELSE "thread/start") OBVIOUS
  <2>2. x7' \subseteq x7 \cup {r} /\ x5' = x5 /\ x13' = x13
    BY <1>2, <2>1 DEF TX!Response, TX!Quietly, TX!inputs, TX!work
  <2>3. r.input = "none" /\ r.method # "thread/name/set" BY <2>1 DEF TX!Simple, TX!Req
  <2>4. QED BY <2>2, <2>3, PlainOnes, OnePlain
<1>3. CASE a.req.method = "thread/start"
  <2>1. PICK s : s = TX!Simple("turn/start") OBVIOUS
  <2>2. PICK m : m = TX!Simple("thread/name/set") OBVIOUS
  <2>3. x7' \subseteq x7 \cup {s, m} /\ x5' = x5 /\ x13' = x13
    BY <1>3, <2>1, <2>2 DEF TX!Response, TX!inputs, TX!work
  <2>4. s.input = "none" /\ s.method # "thread/name/set" /\ m.input = "none" BY <2>1, <2>2 DEF TX!Simple, TX!Req
  <2>5. IsFiniteSet({s, m})
    <3>1. IsFiniteSet({s}) /\ {s, m} = {s} \cup {m} BY FS_Singleton
    <3>2. QED BY <3>1, OneMore
  <2>6. Plain({s, m} \cap x7') BY <2>2, <2>4, <2>5, FS_Subset DEF Plain
  <2>7. QED BY <2>3, <2>6 DEF FewMoves
<1>4. CASE a.req.method = "turn/start" /\ x1 = "starting"
  <2>1. TX!AdmitTurn(TX!Last, x7 \ {a.req}) BY <1>4 DEF TX!Response
  <2>2. QED BY <1>1, <1>4, <2>1, TraexFewAdmits
<1>5. CASE \/ a.req.method = "turn/start" /\ x1 # "starting"
           \/ a.req.method = "thread/name/set"
  <2>1. x7' \subseteq x7 /\ x5' = x5 /\ x13' = x13
    BY <1>5 DEF TX!Response, TX!Quietly, TX!inputs, TX!work
  <2>2. QED BY <2>1, NonePlain
<1>6. CASE a.req.method = "turn/interrupt"
  <2>1. x7' \subseteq x7 /\ x5' = x5 /\ x13' = x13
    BY <1>6 DEF TX!Response, TX!InterruptAnswer, TX!Died, TX!Quietly, TX!inputs, TX!work
  <2>2. QED BY <2>1, NonePlain
<1>7. CASE a.req.method = "turn/steer"
  <2>1. x7' = x7 \ {a.req} /\ TX!SteerAnswer(a.req, a.ok) BY <1>7, Zenon DEF TX!Response
  <2>2. x13' = x13 /\ (x5' = x5 \/ x5' = x5 \cup {a.req.input})
    BY <2>1 DEF TX!SteerAnswer, TX!Died, TX!Quietly, TX!inputs, TX!work
  <2>3. a.req.input # "none" BY <1>1, <1>7 DEF TX!RequestsSound
  <2>4. CASE x5' = x5 BY <2>1, <2>2, <2>4, NonePlain
  <2>5. CASE x5' = x5 \cup {a.req.input} BY <1>1, <2>1, <2>2, <2>3, <2>5 DEF FewMoves
  <2>6. QED BY <2>2, <2>4, <2>5
<1>8. a.req.method \in {"initialize", "config/read", "thread/start", "turn/start", "turn/steer", "turn/interrupt",
                        "thread/name/set"}
  BY <1>1 DEF TX!RequestsSound, TX!Asked
<1>9. QED BY <1>2, <1>3, <1>4, <1>5, <1>6, <1>7, <1>8

LEMMA TraexFewTold ==
  ASSUME TX!TraexAssumption, TX!TraexInv, NEW n \in TX!Turns, TX!Started(n) \/ TX!Completed(n)
  PROVE  FewMoves /\ x13' = x13
<1>1. CASE TX!Started(n) /\ x1 = "starting"
  <2>1. TX!AdmitTurn(n, x7) BY <1>1 DEF TX!Started
  <2>2. QED BY <1>1, <2>1, TraexFewAdmits DEF TX!TraexInv
<1>2. CASE TX!Started(n) /\ x1 # "starting"
  <2>1. x7' \subseteq x7 /\ x5' = x5 /\ x13' = x13 BY <1>2 DEF TX!Started, TX!inputs, TX!work
  <2>2. QED BY <2>1, NonePlain
<1>3. CASE TX!Completed(n)
  <2>1. x7' \subseteq x7 /\ x13' = x13 /\ x5' \subseteq x5 BY <1>3 DEF TX!Completed, TX!Finished, TX!work
  <2>2. QED BY <2>1, NonePlain
<1>4. QED BY <1>1, <1>2, <1>3

LEMMA TraexFewOthers ==
  ASSUME \/ TX!HandleStart \/ \E r \in x7 : TX!HandleSteer(r) \/ \E ok \in BOOLEAN : TX!HandleOther(r, ok)
         \/ \E status \in {"completed", "failed"} : TX!End(status)
  PROVE  FewMoves /\ x13' = x13
<1>1. x5' = x5 /\ x7' = x7 /\ x13' = x13
  BY Zenon DEF TX!HandleStart, TX!HandleSteer, TX!HandleOther, TX!End, TX!ServerKeeps, TX!inputs, TX!work
<1>2. QED BY <1>1, NonePlain

LEMMA TraexFewWorks ==
  ASSUME x13 \subseteq TraexWork,
         \/ \E q \in TraexItems : TX!Ask(q) \/ \E whole \in BOOLEAN : TX!Text(q, whole)
         \/ \E c \in TraexWork, p \in BOOLEAN : TX!Backgrounded(c, p) \/ TX!Agent(c, p)
         \/ \E b \in x12, exited \in BOOLEAN : TX!CommandEnds(b, exited) \/ TX!Polled(b, exited)
  PROVE  FewMoves /\ x13' \subseteq TraexWork
<1>1. x5' = x5 /\ x7' = x7
  BY Zenon DEF TX!Ask, TX!Text, TX!Backgrounded, TX!Agent, TX!CommandEnds, TX!Polled, TX!ItemKeeps, TX!inputs
<1>2. FewMoves BY <1>1, NonePlain
<1>3. CASE \E c \in TraexWork, p \in BOOLEAN : TX!Agent(c, p)
  <2>1. PICK c \in TraexWork, p \in BOOLEAN : TX!Agent(c, p) BY <1>3
  <2>2. x13' \subseteq x13 \cup {c} BY <2>1 DEF TX!Agent
  <2>3. QED BY <1>2, <2>2
<1>4. CASE ~\E c \in TraexWork, p \in BOOLEAN : TX!Agent(c, p)
  <2>1. x13' = x13
    BY <1>4, Zenon DEF TX!Ask, TX!Text, TX!Backgrounded, TX!CommandEnds, TX!Polled, TX!ItemKeeps, TX!work
  <2>2. QED BY <1>2, <2>1
<1>5. QED BY <1>3, <1>4

LEMMA InitTraexFew == ASSUME TX!TraexAssumption, TX!Init PROVE TX!RequestsFew
<1>1. x5 = {} /\ x7 = {} /\ x13 = {} BY DEF TX!Init
<1>2. Steering({}) = {} /\ MaxTraexInputs \in Nat BY DEF Steering, TX!TraexAssumption
<1>3. FewWait({}, {}) BY <1>2, FS_EmptySet DEF FewWait
<1>4. QED BY <1>1, <1>3, TraexFew

LEMMA NextTraexFew ==
  ASSUME TX!TraexAssumption, TX!TraexInv, TX!RequestsFew, [TX!Next]_(TX!vars) PROVE TX!RequestsFew'
<1>0. MaxTraexInputs \in Nat /\ FewWait(x5, x7) /\ x13 \subseteq TraexWork BY TraexFew DEF TX!TraexAssumption
<1>1. FewMoves /\ x13' \subseteq TraexWork
  <2>1. CASE UNCHANGED TX!vars
    <3>1. x5' = x5 /\ x7' = x7 /\ x13' = x13 BY <2>1 DEF TX!vars, TX!inputs, TX!work
    <3>2. QED BY <1>0, <3>1, NonePlain
  <2>2. CASE \/ TX!Open \/ TX!Start \/ TX!Interrupt \/ TX!Rename
             \/ \E i \in TraexInputs : TX!Steer(i)
             \/ \E q \in TraexItems : TX!Approve(q)
    BY <1>0, <2>2, TraexFewAsks
  <2>3. CASE \/ TX!HandleStart \/ \E r \in x7 : TX!HandleSteer(r) \/ \E ok \in BOOLEAN : TX!HandleOther(r, ok)
             \/ \E status \in {"completed", "failed"} : TX!End(status)
    BY <1>0, <2>3, TraexFewOthers
  <2>4. CASE \E n \in TX!Turns : TX!Started(n) \/ TX!Completed(n) BY <1>0, <2>4, TraexFewTold
  <2>5. CASE \E a \in x19 : TX!Response(a) BY <1>0, <2>5, TraexFewAnswers
  <2>6. CASE \/ \E q \in TraexItems : TX!Ask(q) \/ \E whole \in BOOLEAN : TX!Text(q, whole)
             \/ \E c \in TraexWork, p \in BOOLEAN : TX!Backgrounded(c, p) \/ TX!Agent(c, p)
             \/ \E b \in x12, exited \in BOOLEAN : TX!CommandEnds(b, exited) \/ TX!Polled(b, exited)
    BY <1>0, <2>6, TraexFewWorks
  <2>7. QED BY <2>1, <2>2, <2>3, <2>4, <2>5, <2>6, Zenon DEF TX!Next
<1>2. FewWait(x5, x7)' BY <1>0, <1>1, FewKept
<1>3. TX!RequestsFew'
  <2>1. IsFiniteSet(x5') /\ IsFiniteSet(x7') BY <1>2 DEF FewWait
  <2>2. Cardinality(x5') + Cardinality({r \in x7' : r.input # "none"}) <= MaxTraexInputs BY <1>2 DEF FewWait, Steering
  <2>3. \A r \in x7' : r.method = "thread/name/set" => r = TX!Simple("thread/name/set") BY <1>2 DEF FewWait
  <2>4. QED BY <1>1, <2>1, <2>2, <2>3, TXSizes DEF TX!RequestsFew
<1>4. QED BY <1>3

\* Besides messages at most three requests wait: a turn, its stop and a name.
LEMMA TraexType == ASSUME TX!TraexAssumption, TX!TraexInv, TX!RequestsFew PROVE TX!TypeOK
<1>0. /\ MaxTraexInputs \in Nat /\ MaxTraexRequests \in Nat /\ MaxTraexInputs + 3 <= MaxTraexRequests
      /\ FewWait(x5, x7) /\ x13 \subseteq TraexWork
  BY TraexFew DEF TX!TraexAssumption
<1>1. TX!TurnsNumbered /\ TX!RequestsSound /\ TX!TurnSound /\ TX!InputsSound BY DEF TX!TraexInv
<1>2. IsFiniteSet(x7) /\ Cardinality(x7) <= MaxTraexRequests
  <2>1. IsFiniteSet(Steering(x7)) /\ IsFiniteSet(x7) /\ IsFiniteSet(x5) BY <1>0, FS_Subset DEF FewWait, Steering
  <2>2. Cardinality(Steering(x7)) \in Nat /\ Cardinality(x7) \in Nat /\ Cardinality(x5) \in Nat BY <2>1, FS_CardinalityType
  <2>3. Cardinality(Steering(x7)) <= MaxTraexInputs BY <1>0, <2>2 DEF FewWait
  <2>4. CASE \E r \in x7 : r.method \in {"initialize", "config/read", "thread/start"}
    <3>1. PICK r \in x7 : x7 = {r} BY <1>1, <2>4 DEF TX!RequestsSound
    <3>2. Cardinality(x7) = 1 BY <3>1, FS_Singleton
    <3>3. QED BY <1>0, <2>1, <3>2
  <2>5. CASE ~\E r \in x7 : r.method \in {"initialize", "config/read", "thread/start"}
    <3>1. PICK s : s = [method |-> "turn/start", turn |-> 0, input |-> "none"] OBVIOUS
    <3>2. PICK p : p = [method |-> "turn/interrupt", turn |-> TX!Last, input |-> "none"] OBVIOUS
    <3>3. PICK m : m = [method |-> "thread/name/set", turn |-> 0, input |-> "none"] OBVIOUS
    <3>4. x7 \subseteq Steering(x7) \cup {s, p, m}
      <4>1. SUFFICES ASSUME NEW r \in x7, r.input = "none" PROVE r \in {s, p, m} BY DEF Steering
      <4>2. r \in TX!Asked BY <1>1 DEF TX!RequestsSound
      <4>3. CASE r.method = "turn/start" BY <1>1, <3>1, <4>3 DEF TX!RequestsSound, TX!StartAsked, TX!Simple, TX!Req
      <4>4. CASE r.method = "turn/interrupt"
        <5>1. r.turn = TX!Last BY <1>1, <4>4 DEF TX!RequestsSound
        <5>2. r = p BY <3>2, <4>1, <4>2, <4>4, <5>1 DEF TX!Asked
        <5>3. QED BY <5>2
      <4>5. CASE r.method = "thread/name/set" BY <1>0, <3>3, <4>5 DEF FewWait, TX!Simple, TX!Req
      <4>6. r.method # "turn/steer" BY <1>1, <4>1 DEF TX!RequestsSound
      <4>7. QED BY <2>5, <4>2, <4>3, <4>4, <4>5, <4>6 DEF TX!Asked
    <3>5. IsFiniteSet(Steering(x7) \cup {s}) /\ Cardinality(Steering(x7) \cup {s}) <= Cardinality(Steering(x7)) + 1
      BY <2>1, OneMore
    <3>6. /\ IsFiniteSet((Steering(x7) \cup {s}) \cup {p})
          /\ Cardinality((Steering(x7) \cup {s}) \cup {p}) <= Cardinality(Steering(x7) \cup {s}) + 1
      BY <3>5, OneMore
    <3>7. /\ IsFiniteSet(((Steering(x7) \cup {s}) \cup {p}) \cup {m})
          /\ Cardinality(((Steering(x7) \cup {s}) \cup {p}) \cup {m}) <= Cardinality((Steering(x7) \cup {s}) \cup {p}) + 1
      BY <3>6, OneMore
    <3>8. /\ Cardinality(Steering(x7) \cup {s}) \in Nat /\ Cardinality((Steering(x7) \cup {s}) \cup {p}) \in Nat
          /\ Cardinality(((Steering(x7) \cup {s}) \cup {p}) \cup {m}) \in Nat
      BY <3>5, <3>6, <3>7, FS_CardinalityType
    <3>9. x7 \subseteq ((Steering(x7) \cup {s}) \cup {p}) \cup {m} BY <3>4
    <3>10. Cardinality(x7) <= Cardinality(((Steering(x7) \cup {s}) \cup {p}) \cup {m}) BY <3>7, <3>9, FS_Subset
    <3>11. QED BY <1>0, <2>1, <2>2, <2>3, <3>5, <3>6, <3>7, <3>8, <3>10
  <2>6. QED BY <2>4, <2>5
<1>3. Cardinality(x5) <= MaxTraexInputs
  <2>1. IsFiniteSet(Steering(x7)) /\ IsFiniteSet(x5) BY <1>0, FS_Subset DEF FewWait, Steering
  <2>2. Cardinality(Steering(x7)) \in Nat /\ Cardinality(x5) \in Nat BY <2>1, FS_CardinalityType
  <2>3. QED BY <1>0, <2>2 DEF FewWait
<1>4. x2 \in 0 .. MaxTraexTurns /\ x17 \in 0 .. MaxTraexTurns /\ (x2 # 0 <=> x1 = "running")
  <2>1. MaxTraexTurns \in Nat \ {0} BY DEF TX!TraexAssumption
  <2>2. x1 = "running" => TX!Last # 0 BY <1>1 DEF TX!TurnSound, TX!Under
  <2>3. QED BY <1>1, <2>1, <2>2 DEF TX!TurnsNumbered, TX!TurnSound
<1>5. x5 \subseteq TraexInputs /\ x23 \subseteq TraexInputs
  <2>1. x21 \subseteq TraexInputs \X TX!Turns BY <1>1 DEF TX!InputsSound
  <2>2. \A i \in x23 : \E n \in TX!Turns : <<i, n>> \in x21 BY <1>1 DEF TX!InputsSound
  <2>3. QED BY <1>1, <2>1, <2>2 DEF TX!InputsSound
<1>6. \A a \in x19 : a.req \in x7 BY <1>1 DEF TX!RequestsSound
<1>7. QED BY <1>0, <1>1, <1>2, <1>3, <1>4, <1>5, <1>6, TXSizes DEF TX!TypeOK, TX!TurnSound

-----------------------------------------------------------------------------
(* A behaviour of this specification is one of the module it is about. *)

\* What carries what a host keeps, while the run is about it.
IndexesKept ==
  /\ focus = "attachments" => AT!CacheKept
  /\ focus = "catalog" => CT!CatalogKept
  /\ focus = "sources" => SR!SourcesKept

LEMMA OldToolEvents == OldEvents \in Seq(SR!ToolEvents)
BY ServicesAssumption DEF SR!SourceAssumption, SR!ToolEvents

LEMMA InitIndexes == MCInit => IndexesKept
<1> SUFFICES ASSUME MCInit PROVE IndexesKept OBVIOUS
<1>1. focus = "attachments" => AT!CacheKept BY ServicesAssumption, InitCache DEF MCInit
<1>2. focus = "catalog" => CT!CatalogKept BY ServicesAssumption, InitCatalog DEF MCInit
<1>3. focus = "sources" => SR!SourcesKept BY ServicesAssumption, InitSources, OldToolEvents DEF MCInit
<1>4. QED BY <1>1, <1>2, <1>3 DEF IndexesKept

LEMMA IndexSteps ==
  ASSUME [MCNext]_all
  PROVE  /\ focus' = focus
         /\ focus = "attachments" => [AT!Next]_(AT!vars)
         /\ focus = "catalog" => [CT!Next]_(CT!vars)
         /\ focus = "sources" => [SR!Next]_(SR!vars)
         /\ focus = "providers" => [Next]_vars
<1>1. CASE MCNext
  <2>1. focus' = focus BY <1>1 DEF MCNext
  <2>2. (focus = "attachments" => AT!Next) /\ (focus = "catalog" => CT!Next) /\ (focus = "sources" => SR!Next)
    BY <1>1 DEF MCNext
  <2>3. focus = "providers" => Next BY <1>1 DEF MCNext
  <2>4. QED BY <2>1, <2>2, <2>3
<1>2. CASE UNCHANGED all
  <2>1. UNCHANGED <<focus, x1, x2, x3, x4, x5, x6, x7, Rest>>
    BY <1>2 DEF all, From1, From2, From5, From6, From7
  <2>2. UNCHANGED <<AT!vars, CT!vars, SR!vars>> BY <2>1 DEF AT!vars, CT!vars, SR!vars
  <2>3. UNCHANGED vars BY <2>1 DEF vars, Rest
  <2>4. QED BY <2>1, <2>2, <2>3
<1>3. QED BY <1>1, <1>2

LEMMA NextIndexes == IndexesKept /\ [MCNext]_all => IndexesKept'
<1> SUFFICES ASSUME IndexesKept, [MCNext]_all PROVE IndexesKept' OBVIOUS
<1> USE DEF IndexesKept
<1>1. (focus = "attachments" => AT!CacheKept)' BY IndexSteps, ServicesAssumption, NextCache
<1>2. (focus = "catalog" => CT!CatalogKept)' BY IndexSteps, ServicesAssumption, NextCatalog
<1>3. (focus = "sources" => SR!SourcesKept)' BY IndexSteps, ServicesAssumption, NextSources, OldToolEvents
<1>4. QED BY <1>1, <1>2, <1>3

\* Whatever uploads begin, come in part, expire, fail or end with a daemon that
\* dies, the cache is within its limit with what is still to come; a list of recent
\* sessions read page by page shows each of those it is about once and in order;
\* and a source has as many uses as the log tells of, though it is read from any
\* place again.
THEOREM HostIndexesAreExact == MCSpec => []HostIndexesExact
<1>1. IndexesKept => HostIndexesExact
  <2> SUFFICES ASSUME IndexesKept PROVE HostIndexesExact OBVIOUS
  <2>1. focus = "attachments" => AT!CacheBounded BY ServicesAssumption, CacheWithin DEF IndexesKept
  <2>2. focus = "catalog" => CT!RecentExact BY ReadOnce DEF IndexesKept
  <2>3. focus = "sources" => SR!UsesExact BY UsesTrue DEF IndexesKept
  <2>4. QED BY <2>1, <2>2, <2>3 DEF HostIndexesExact
<1>2. QED BY <1>1, InitIndexes, NextIndexes, PTL DEF MCSpec

\* What the types need beside the invariants above.
TypesKept ==
  /\ focus = "claude" => ClaudeTyped
  /\ focus = "traex" => TX!RequestsFew
  /\ focus = "hostProviders" => HostTyped
  /\ focus = "skills" => SlotsBack
  /\ focus = "providers" => IInv /\ RecordsFew(file)

LEMMA InitTypes == MCInit => TypesKept
<1> SUFFICES ASSUME MCInit PROVE TypesKept OBVIOUS
<1>1. focus = "claude" => ClaudeTyped BY ServicesAssumption, InitClaudeType DEF MCInit
<1>2. focus = "traex" => TX!RequestsFew BY ServicesAssumption, InitTraexFew DEF MCInit
<1>3. focus = "hostProviders" => HostTyped
  BY DEF MCInit, HP!Init, HP!Nothing, HostTyped, HP!TypeOK, SentTyped
<1>4. focus = "skills" => SlotsBack BY DEF MCInit, SK!Init, SlotsBack
<1>5. focus = "providers" => IInv /\ RecordsFew(file) BY InitIsSound, InitRecordsFew DEF MCInit
<1>6. QED BY <1>1, <1>2, <1>3, <1>4, <1>5 DEF TypesKept

LEMMA NextTypes == TypesKept /\ ServicesKept /\ [MCNext]_all => TypesKept'
<1> SUFFICES ASSUME TypesKept, ServicesKept, [MCNext]_all PROVE TypesKept' OBVIOUS
<1> USE DEF TypesKept
<1>1. (focus = "claude" => ClaudeTyped)' BY FocusSteps, ServicesAssumption, NextClaudeType
<1>2. (focus = "traex" => TX!RequestsFew)'
  BY FocusSteps, ServicesAssumption, NextTraexFew DEF ServicesKept, AdaptersKept
<1>3. (focus = "hostProviders" => HostTyped)' BY FocusSteps, NextHost
<1>4. (focus = "skills" => SlotsBack)'
  <2>1. focus' = focus /\ (focus = "skills" => [SK!Next]_(SK!vars) /\ SK!SkillInv)
    BY FocusSteps DEF ServicesKept, HostKept
  <2>2. focus = "skills" /\ UNCHANGED SK!vars => SlotsBack' BY DEF SK!vars, SlotsBack
  <2>3. QED BY <2>1, <2>2, ServicesAssumption, SlotsKept
<1>5. (focus = "providers" => IInv /\ RecordsFew(file))'
  <2>1. focus' = focus /\ (focus = "providers" => [Next]_vars) BY IndexSteps
  <2>2. focus = "providers" => IInv' /\ RecordsFew(file') BY <2>1, StepIsSound, NextRecordsFew
  <2>3. QED BY <2>1, <2>2 DEF RecordsFew
<1>6. QED BY <1>1, <1>2, <1>3, <1>4, <1>5

\* Every module keeps its types and its limits: the inputs and agents an adapter
\* waits for, the requests an app-server is asked at a time, the slot of a daemon's
\* worker, the providers of a configuration, the bytes of the cache, the window of
\* sources and the offsets of readers among them.
THEOREM TypesAreCorrect == MCSpec => []TypesCorrect
<1> DEFINE Kept == ServicesKept /\ ChildrenKept /\ TalkKept /\ IndexesKept /\ TypesKept
<1>1. Kept => TypesCorrect
  <2> SUFFICES ASSUME ServicesKept, ChildrenKept, TalkKept, IndexesKept, TypesKept PROVE TypesCorrect OBVIOUS
  <2>1. focus = "upgrade" => LU!TypeOK BY DEF ServicesKept, UpgradeKept, LU!UpgradeInv
  <2>2. focus = "claude" => CA!TypeOK BY ClaudeType DEF TypesKept
  <2>3. focus = "traex" => TX!TypeOK BY ServicesAssumption, TraexType DEF TypesKept, ServicesKept, AdaptersKept
  <2>4. focus = "history" => CH!TypeOK BY HistoryType DEF ChildrenKept
  <2>5. focus = "timeline" => TL!TypeOK BY ServicesAssumption, TimelineShown DEF TalkKept
  <2>6. focus = "titles" => TS!TypeOK BY ServicesAssumption, TitlesType DEF TalkKept
  <2>7. focus = "terminals" => TE!TypeOK BY DEF ServicesKept, StreamsKept, TE!OutputInv
  <2>8. focus = "attachments" => AT!TypeOK BY ServicesAssumption, CacheWithin DEF IndexesKept
  <2>9. focus = "catalog" => CT!TypeOK BY ReadOnce DEF IndexesKept
  <2>10. focus = "sources" => SR!TypeOK BY UsesTrue DEF IndexesKept
  <2>11. focus = "hostProviders" => HP!TypeOK BY DEF TypesKept, HostTyped
  <2>12. focus = "skills" => SK!TypeOK BY SkillType DEF TypesKept, ServicesKept, HostKept
  <2>13. focus = "providers" => TypeOK BY ProvidersType DEF TypesKept
  <2>14. QED
    BY <2>1, <2>2, <2>3, <2>4, <2>5, <2>6, <2>7, <2>8, <2>9, <2>10, <2>11, <2>12, <2>13 DEF TypesCorrect
<1>2. MCInit => Kept BY InitServices, InitRecords, InitIndexes, InitTypes
<1>3. Kept /\ [MCNext]_all => Kept' BY NextServices, NextRecords, NextIndexes, NextTypes
<1>4. QED BY <1>1, <1>2, <1>3, PTL DEF MCSpec
================================================================================
