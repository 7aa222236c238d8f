---------------------------- MODULE InstallProofs ----------------------------
(***************************************************************************)
(* On a POSIX system every reachable state of Install, for any finite set  *)
(* of processes and any bounds, satisfies InstallInvariant!InstallInv, and *)
(* with it one process writes to a store, no name shows a file that is not *)
(* whole, and no power loss takes a revision that was acknowledged.        *)
(*                                                                         *)
(* A step is one call of one process.  The lemmas below say what a call    *)
(* does to the names and files and to which place it takes its process;    *)
(* the other processes stay where they are because nobody but the owner of *)
(* the store changes its names, and nobody but a process changes what it   *)
(* stages (NamesKept, StageKept, StaysPlaced).                             *)
(***************************************************************************)
EXTENDS InstallInvariant, SequenceTheorems, FiniteSetTheorems, TLAPS

-----------------------------------------------------------------------------
(* Programs. *)

IsSeq(s) == s \in Seq(ToSet(s))

LEMMA SeqOver ==
    ASSUME NEW S, NEW s \in Seq(S)
    PROVE  IsSeq(s)
<1>1. /\ Len(s) \in Nat /\ DOMAIN s = 1 .. Len(s) /\ \A i \in 1 .. Len(s) : s[i] \in ToSet(s)
  BY DEF ToSet
<1>2. s \in [1 .. Len(s) -> ToSet(s)]
  BY <1>1
<1> QED
  BY <1>1, <1>2, SeqDef DEF IsSeq

\* A program is the call it makes next and the rest.
LEMMA NextCall ==
    ASSUME NEW s, IsSeq(s), NEW i \in 1 .. Len(s)
    PROVE  /\ From(s, i) # <<>> /\ IsSeq(From(s, i)) /\ IsSeq(From(s, i + 1))
           /\ Head(From(s, i)) = s[i] /\ Tail(From(s, i)) = From(s, i + 1)
           /\ <<>> \o From(s, i + 1) = From(s, i + 1)
           /\ From(s, 1) = s /\ From(s, Len(s) + 1) = <<>>
<1> DEFINE S == ToSet(s)
<1>0. s \in Seq(S) /\ Len(s) \in Nat /\ \A j \in 1 .. Len(s) : s[j] \in S
  BY DEF IsSeq, ToSet
<1> HIDE DEF S
<1>1. /\ Head(SubSeq(s, i, Len(s))) = s[i]
      /\ Tail(SubSeq(s, i, Len(s))) = SubSeq(s, i + 1, Len(s))
  BY <1>0, HeadTailOfSubSeq
<1>2. /\ SubSeq(s, i, Len(s)) \in Seq(S) /\ Len(SubSeq(s, i, Len(s))) = Len(s) - i + 1
      /\ SubSeq(s, i + 1, Len(s)) \in Seq(S)
  BY <1>0, SubSeqProperties
<1>3. SubSeq(s, 1, Len(s)) = s
  BY <1>0, SubSeqFull
<1>6. SubSeq(s, Len(s) + 1, Len(s)) = <<>>
  <2>1. Len(s) + 1 \in Int /\ Len(s) \in Int /\ Len(s) < Len(s) + 1
    BY <1>0
  <2> QED
    BY <2>1, SubSeqEmpty
<1>4. SubSeq(s, i, Len(s)) # <<>>
  <2>1. Len(SubSeq(s, i, Len(s))) # 0
    BY <1>0, <1>2
  <2>2. Len(<<>>) = 0
    OBVIOUS
  <2> QED
    BY <2>1, <2>2
<1>5. <<>> \o SubSeq(s, i + 1, Len(s)) = SubSeq(s, i + 1, Len(s))
  BY <1>2, ConcatEmptySeq
<1> QED
  BY <1>1, <1>2, <1>3, <1>4, <1>5, <1>6, SeqOver DEF From

LEMMA Joined ==
    ASSUME NEW s, IsSeq(s), NEW t, IsSeq(t)
    PROVE  /\ IsSeq(s \o t) /\ Len(s \o t) = Len(s) + Len(t)
           /\ Len(s) \in Nat /\ Len(t) \in Nat
           /\ \A i \in 1 .. Len(s) : (s \o t)[i] = s[i]
           /\ \A i \in 1 .. Len(t) : (s \o t)[Len(s) + i] = t[i]
<1> DEFINE S == ToSet(s) \cup ToSet(t)
<1>1. s \in Seq(S) /\ t \in Seq(S)
  BY SeqMonotonic DEF IsSeq
<1> HIDE DEF S
<1>2. /\ s \o t \in Seq(S) /\ Len(s \o t) = Len(s) + Len(t)
      /\ \A i \in 1 .. Len(s) + Len(t) : (s \o t)[i] = IF i <= Len(s) THEN s[i] ELSE t[i - Len(s)]
  BY <1>1, ConcatProperties
<1>3. Len(s) \in Nat /\ Len(t) \in Nat
  BY <1>1
<1>4. ASSUME NEW i \in 1 .. Len(s) PROVE (s \o t)[i] = s[i]
  BY <1>2, <1>3
<1>5. ASSUME NEW i \in 1 .. Len(t) PROVE (s \o t)[Len(s) + i] = t[i]
  <2>1. Len(s) + i \in 1 .. Len(s) + Len(t) /\ ~(Len(s) + i <= Len(s)) /\ Len(s) + i - Len(s) = i
    BY <1>3
  <2> QED
    BY <1>2, <2>1
<1> QED
  BY <1>2, <1>3, <1>4, <1>5, SeqOver

LEMMA Literals ==
    ASSUME NEW a, NEW b, NEW c, NEW d, NEW e, NEW f, NEW g, NEW h
    PROVE  /\ IsSeq(<<a>>) /\ IsSeq(<<a, b>>) /\ IsSeq(<<a, b, c>>) /\ IsSeq(<<a, b, c, d>>)
           /\ IsSeq(<<a, b, c, d, e>>) /\ IsSeq(<<a, b, c, d, e, f>>)
           /\ IsSeq(<<a, b, c, d, e, f, g>>) /\ IsSeq(<<a, b, c, d, e, f, g, h>>)
           /\ IsSeq(<<>>)
<1> DEFINE S == {a, b, c, d, e, f, g, h}
<1>1. /\ <<a>> \in Seq(S) /\ <<a, b>> \in Seq(S) /\ <<a, b, c>> \in Seq(S) /\ <<a, b, c, d>> \in Seq(S)
      /\ <<a, b, c, d, e>> \in Seq(S) /\ <<a, b, c, d, e, f>> \in Seq(S)
      /\ <<a, b, c, d, e, f, g>> \in Seq(S) /\ <<a, b, c, d, e, f, g, h>> \in Seq(S)
      /\ <<>> \in Seq(S)
  OBVIOUS
<1> HIDE DEF S
<1> QED
  BY <1>1, SeqOver

LEMMA OpeningIs ==
    /\ IsSeq(Opening) /\ Len(Opening) = 5
    /\ Opening[1] = <<"lock">> /\ Opening[2] = <<"same", Store>>
    /\ Opening[3] = <<"verify", Store>> /\ Opening[4] = <<"sweep">> /\ Opening[5] = <<"wal">>
<1> DEFINE s1 == <<<<"lock">>, <<"same", Store>>>>
           s2 == <<<<"verify", Store>>, <<"sweep">>, <<"wal">>>>
<1>1. Opening = s1 \o s2
  BY DEF Opening, LockWriterCurrent
<1>2. /\ IsSeq(s1) /\ IsSeq(s2)
      /\ Len(s1) = 2 /\ Len(s2) = 3
      /\ s1[1] = <<"lock">> /\ s1[2] = <<"same", Store>>
      /\ s2[1] = <<"verify", Store>> /\ s2[2] = <<"sweep">> /\ s2[3] = <<"wal">>
  BY Literals
<1> HIDE DEF s1, s2
<1>3. /\ IsSeq(s1 \o s2) /\ Len(s1 \o s2) = 5
      /\ (s1 \o s2)[1] = <<"lock">> /\ (s1 \o s2)[2] = <<"same", Store>>
      /\ (s1 \o s2)[3] = <<"verify", Store>> /\ (s1 \o s2)[4] = <<"sweep">>
      /\ (s1 \o s2)[5] = <<"wal">>
  <2>1. /\ IsSeq(s1 \o s2) /\ Len(s1 \o s2) = Len(s1) + Len(s2)
        /\ \A i \in 1 .. Len(s1) : (s1 \o s2)[i] = s1[i]
        /\ \A i \in 1 .. Len(s2) : (s1 \o s2)[Len(s1) + i] = s2[i]
    <3>1. IsSeq(s1) /\ IsSeq(s2)
      BY <1>2
    <3> QED
      BY <3>1, Joined
  <2>2. /\ \A i \in 1 .. 2 : (s1 \o s2)[i] = s1[i]
        /\ \A i \in 1 .. 3 : (s1 \o s2)[2 + i] = s2[i]
    BY <2>1, <1>2
  <2> QED
    BY <2>1, <2>2, <1>2
<1> QED
  BY <1>1, <1>3

LEMMA OpenStoreIs ==
    /\ IsSeq(OpenStore) /\ Len(OpenStore) = 6
    /\ OpenStore[1] = <<"open", Store>> /\ OpenStore[2] = <<"lock">>
    /\ OpenStore[3] = <<"same", Store>> /\ OpenStore[4] = <<"verify", Store>>
    /\ OpenStore[5] = <<"sweep">> /\ OpenStore[6] = <<"wal">>
<1> DEFINE s == <<<<"open", Store>>>>
<1>1. OpenStore = s \o Opening
  BY DEF OpenStore
<1>2. /\ IsSeq(s) /\ IsSeq(Opening) /\ Len(s) = 1
      /\ s[1] = <<"open", Store>>
  BY Literals, OpeningIs
<1> HIDE DEF s
<1>3. /\ IsSeq(s \o Opening) /\ Len(s \o Opening) = Len(s) + Len(Opening)
      /\ \A i \in 1 .. Len(s) : (s \o Opening)[i] = s[i]
      /\ \A i \in 1 .. Len(Opening) : (s \o Opening)[Len(s) + i] = Opening[i]
  <2>1. IsSeq(s)
    BY <1>2
  <2>2. IsSeq(Opening)
    BY <1>2
  <2> QED
    BY <2>1, <2>2, Joined
<1>4. /\ \A i \in 1 .. 1 : (s \o Opening)[i] = s[i]
      /\ \A i \in 1 .. 5 : (s \o Opening)[1 + i] = Opening[i]
  BY <1>2, <1>3, OpeningIs
<1> QED
  BY SMTT(60), <1>1, <1>2, <1>3, <1>4, OpeningIs

LEMMA BirthOpenIs ==
    ASSUME NEW p
    PROVE  /\ IsSeq(BirthOpen(p)) /\ Len(BirthOpen(p)) = 10
           /\ BirthOpen(p)[1] = <<"stage", Stage("creating", p)>>
           /\ BirthOpen(p)[2] = <<"open", Stage("creating", p)>>
           /\ BirthOpen(p)[3] = <<"birth", Stage("creating", p)>>
           /\ BirthOpen(p)[4] = <<"install", Stage("creating", p), Store>>
           /\ BirthOpen(p)[5] = <<"sync">> /\ BirthOpen(p)[6] = <<"lock">>
           /\ BirthOpen(p)[7] = <<"same", Store>> /\ BirthOpen(p)[8] = <<"verify", Store>>
           /\ BirthOpen(p)[9] = <<"sweep">> /\ BirthOpen(p)[10] = <<"wal">>
<1> DEFINE s == <<<<"stage", Stage("creating", p)>>, <<"open", Stage("creating", p)>>,
                  <<"birth", Stage("creating", p)>>, <<"install", Stage("creating", p), Store>>, <<"sync">>>>
<1>1. BirthOpen(p) = s \o Opening
  BY DEF BirthOpen, Birth
<1>2. /\ IsSeq(s) /\ IsSeq(Opening) /\ Len(s) = 5
      /\ s[1] = <<"stage", Stage("creating", p)>> /\ s[2] = <<"open", Stage("creating", p)>>
      /\ s[3] = <<"birth", Stage("creating", p)>>
      /\ s[4] = <<"install", Stage("creating", p), Store>> /\ s[5] = <<"sync">>
  BY Literals, OpeningIs
<1> HIDE DEF s
<1>3. /\ IsSeq(s \o Opening) /\ Len(s \o Opening) = Len(s) + Len(Opening)
      /\ \A i \in 1 .. Len(s) : (s \o Opening)[i] = s[i]
      /\ \A i \in 1 .. Len(Opening) : (s \o Opening)[Len(s) + i] = Opening[i]
  <2>1. IsSeq(s)
    BY <1>2
  <2>2. IsSeq(Opening)
    BY <1>2
  <2> QED
    BY <2>1, <2>2, Joined
<1>4. /\ \A i \in 1 .. 5 : (s \o Opening)[i] = s[i]
      /\ \A i \in 1 .. 5 : (s \o Opening)[5 + i] = Opening[i]
  BY <1>2, <1>3, OpeningIs
<1> QED
  BY <1>1, <1>2, <1>3, <1>4, OpeningIs

LEMMA NewLogIs ==
    /\ IsSeq(NewLog) /\ Len(NewLog) = 4
    /\ NewLog[1] = <<"create", Wal>> /\ NewLog[2] = <<"birth", Wal>> /\ NewLog[3] = <<"sync">>
    /\ NewLog[4] = <<"log">>
  BY Literals DEF NewLog

LEMMA ClosingIs ==
    /\ IsSeq(Closing) /\ Len(Closing) = 3
    /\ Closing[1] = <<"unlink", Wal>> /\ Closing[2] = <<"sync">> /\ Closing[3] = <<"done">>
  BY Literals DEF Closing

LEMMA RestoreIs ==
    ASSUME NEW p
    PROVE  /\ IsSeq(RestoreFile(p)) /\ Len(RestoreFile(p)) = 7
           /\ RestoreFile(p)[1] = <<"vacant", Store>>
           /\ RestoreFile(p)[2] = <<"stage", Stage("restoring", p)>>
           /\ RestoreFile(p)[3] = <<"fill", Stage("restoring", p), Copied>>
           /\ RestoreFile(p)[4] = <<"verify", Stage("restoring", p)>>
           /\ RestoreFile(p)[5] = <<"install", Stage("restoring", p), Store>>
           /\ RestoreFile(p)[6] = <<"sync">> /\ RestoreFile(p)[7] = <<"done">>
<1> DEFINE s1 == <<<<"vacant", Store>>, <<"stage", Stage("restoring", p)>>>>
           s2 == <<<<"fill", Stage("restoring", p), Copied>>, <<"verify", Stage("restoring", p)>>,
                   <<"install", Stage("restoring", p), Store>>, <<"sync">>>>
           s3 == <<<<"done">>>>
<1>1. RestoreFile(p) = s1 \o s2 \o s3
  BY DEF RestoreFile, Installing
<1>2. /\ IsSeq(s1) /\ IsSeq(s2) /\ IsSeq(s3)
      /\ Len(s1) = 2 /\ Len(s2) = 4 /\ Len(s3) = 1
      /\ s1[1] = <<"vacant", Store>> /\ s1[2] = <<"stage", Stage("restoring", p)>>
      /\ s2[1] = <<"fill", Stage("restoring", p), Copied>>
      /\ s2[2] = <<"verify", Stage("restoring", p)>>
      /\ s2[3] = <<"install", Stage("restoring", p), Store>> /\ s2[4] = <<"sync">>
      /\ s3[1] = <<"done">>
  BY Literals
<1> HIDE DEF s1, s2, s3
<1>3. /\ IsSeq(s1 \o s2) /\ Len(s1 \o s2) = 6
      /\ (s1 \o s2)[1] = <<"vacant", Store>>
      /\ (s1 \o s2)[2] = <<"stage", Stage("restoring", p)>>
      /\ (s1 \o s2)[3] = <<"fill", Stage("restoring", p), Copied>>
      /\ (s1 \o s2)[4] = <<"verify", Stage("restoring", p)>>
      /\ (s1 \o s2)[5] = <<"install", Stage("restoring", p), Store>>
      /\ (s1 \o s2)[6] = <<"sync">>
  <2>1. /\ IsSeq(s1 \o s2) /\ Len(s1 \o s2) = Len(s1) + Len(s2)
        /\ \A i \in 1 .. Len(s1) : (s1 \o s2)[i] = s1[i]
        /\ \A i \in 1 .. Len(s2) : (s1 \o s2)[Len(s1) + i] = s2[i]
    <3>1. IsSeq(s1) /\ IsSeq(s2)
      BY <1>2
    <3> QED
      BY <3>1, Joined
  <2>2. /\ \A i \in 1 .. 2 : (s1 \o s2)[i] = s1[i]
        /\ \A i \in 1 .. 4 : (s1 \o s2)[2 + i] = s2[i]
    BY <2>1, <1>2
  <2> QED
    BY SMTT(60), <2>1, <2>2, <1>2
<1>4. /\ IsSeq(s1 \o s2 \o s3) /\ Len(s1 \o s2 \o s3) = 7
      /\ (s1 \o s2 \o s3)[1] = <<"vacant", Store>>
      /\ (s1 \o s2 \o s3)[2] = <<"stage", Stage("restoring", p)>>
      /\ (s1 \o s2 \o s3)[3] = <<"fill", Stage("restoring", p), Copied>>
      /\ (s1 \o s2 \o s3)[4] = <<"verify", Stage("restoring", p)>>
      /\ (s1 \o s2 \o s3)[5] = <<"install", Stage("restoring", p), Store>>
      /\ (s1 \o s2 \o s3)[6] = <<"sync">> /\ (s1 \o s2 \o s3)[7] = <<"done">>
  <2>1. /\ IsSeq(s1 \o s2 \o s3) /\ Len(s1 \o s2 \o s3) = Len(s1 \o s2) + Len(s3)
        /\ \A i \in 1 .. Len(s1 \o s2) : (s1 \o s2 \o s3)[i] = (s1 \o s2)[i]
        /\ \A i \in 1 .. Len(s3) : (s1 \o s2 \o s3)[Len(s1 \o s2) + i] = s3[i]
    <3>1. IsSeq(s1 \o s2) /\ IsSeq(s3)
      BY <1>2, <1>3
    <3> QED
      BY <3>1, Joined
  <2>2. /\ \A i \in 1 .. 6 : (s1 \o s2 \o s3)[i] = (s1 \o s2)[i]
        /\ \A i \in 1 .. 1 : (s1 \o s2 \o s3)[6 + i] = s3[i]
    BY <2>1, <1>2, <1>3
  <2> QED
    BY <2>1, <2>2, <1>2, <1>3
<1> QED
  BY <1>1, <1>4

LEMMA BackupIs ==
    ASSUME NEW p
    PROVE  /\ IsSeq(Backup(p)) /\ Len(Backup(p)) = 8
           /\ Backup(p)[1] = <<"vacant", Copied>>
           /\ Backup(p)[2] = <<"stage", Stage("backing-up", p)>>
           /\ Backup(p)[3] = <<"birth", Stage("backing-up", p)>> /\ Backup(p)[4] = <<"sync">>
           /\ Backup(p)[5] = <<"fill", Stage("backing-up", p), Store>>
           /\ Backup(p)[6] = <<"verify", Stage("backing-up", p)>>
           /\ Backup(p)[7] = <<"install", Stage("backing-up", p), Copied>>
           /\ Backup(p)[8] = <<"sync">>
<1> DEFINE s1 == <<<<"vacant", Copied>>, <<"stage", Stage("backing-up", p)>>,
                   <<"birth", Stage("backing-up", p)>>, <<"sync">>>>
           s2 == <<<<"fill", Stage("backing-up", p), Store>>, <<"verify", Stage("backing-up", p)>>,
                   <<"install", Stage("backing-up", p), Copied>>, <<"sync">>>>
<1>1. Backup(p) = s1 \o s2
  BY DEF Backup, Installing
<1>2. /\ IsSeq(s1) /\ IsSeq(s2)
      /\ Len(s1) = 4 /\ Len(s2) = 4
      /\ s1[1] = <<"vacant", Copied>> /\ s1[2] = <<"stage", Stage("backing-up", p)>>
      /\ s1[3] = <<"birth", Stage("backing-up", p)>> /\ s1[4] = <<"sync">>
      /\ s2[1] = <<"fill", Stage("backing-up", p), Store>>
      /\ s2[2] = <<"verify", Stage("backing-up", p)>>
      /\ s2[3] = <<"install", Stage("backing-up", p), Copied>> /\ s2[4] = <<"sync">>
  BY Literals
<1> HIDE DEF s1, s2
<1>3. /\ IsSeq(s1 \o s2) /\ Len(s1 \o s2) = 8
      /\ (s1 \o s2)[1] = <<"vacant", Copied>>
      /\ (s1 \o s2)[2] = <<"stage", Stage("backing-up", p)>>
      /\ (s1 \o s2)[3] = <<"birth", Stage("backing-up", p)>> /\ (s1 \o s2)[4] = <<"sync">>
      /\ (s1 \o s2)[5] = <<"fill", Stage("backing-up", p), Store>>
      /\ (s1 \o s2)[6] = <<"verify", Stage("backing-up", p)>>
      /\ (s1 \o s2)[7] = <<"install", Stage("backing-up", p), Copied>>
      /\ (s1 \o s2)[8] = <<"sync">>
  <2>1. /\ IsSeq(s1 \o s2) /\ Len(s1 \o s2) = Len(s1) + Len(s2)
        /\ \A i \in 1 .. Len(s1) : (s1 \o s2)[i] = s1[i]
        /\ \A i \in 1 .. Len(s2) : (s1 \o s2)[Len(s1) + i] = s2[i]
    <3>1. IsSeq(s1) /\ IsSeq(s2)
      BY <1>2
    <3> QED
      BY <3>1, Joined
  <2>2. /\ \A i \in 1 .. 4 : (s1 \o s2)[i] = s1[i]
        /\ \A i \in 1 .. 4 : (s1 \o s2)[4 + i] = s2[i]
    BY <2>1, <1>2
  <2> QED
    BY <2>1, <2>2, <1>2
<1> QED
  BY <1>1, <1>3

LEMMA ReclaimIs ==
    ASSUME ~Windows
    PROVE
    /\ IsSeq(Reclaim) /\ Len(Reclaim) = 21
    /\ Reclaim[1] = <<"open", Store>> /\ Reclaim[2] = <<"lock">>
    /\ Reclaim[3] = <<"same", Store>> /\ Reclaim[4] = <<"verify", Store>>
    /\ Reclaim[5] = <<"same", Store>> /\ Reclaim[6] = <<"nolog">> /\ Reclaim[7] = <<"free">>
    /\ Reclaim[8] = <<"unlink", Staging>> /\ Reclaim[9] = <<"unlink", Anchor>>
    /\ Reclaim[10] = <<"unlink", CandidateTmp>> /\ Reclaim[11] = <<"unlink", Candidate>>
    /\ Reclaim[12] = <<"stage", Staging>> /\ Reclaim[13] = <<"birth", Staging>>
    /\ Reclaim[14] = <<"sync">> /\ Reclaim[15] = <<"fill", Staging, Store>>
    /\ Reclaim[16] = <<"verify", Staging>> /\ Reclaim[17] = <<"lockother", Staging>>
    /\ Reclaim[18] = <<"replace", Staging, Store>> /\ Reclaim[19] = <<"sync">>
    /\ Reclaim[20] = <<"verify", Store>> /\ Reclaim[21] = <<"done">>
<1> DEFINE s1 == <<<<"open", Store>>>>
           s2 == <<<<"lock">>, <<"same", Store>>>>
           s3 == <<<<"verify", Store>>, <<"same", Store>>, <<"nolog">>, <<"free">>, <<"unlink", Staging>>,
                   <<"unlink", Anchor>>, <<"unlink", CandidateTmp>>, <<"unlink", Candidate>>>>
           s4 == <<<<"stage", Staging>>, <<"birth", Staging>>, <<"sync">>, <<"fill", Staging, Store>>,
                   <<"verify", Staging>>>>
           s5 == <<<<"lockother", Staging>>, <<"replace", Staging, Store>>, <<"sync">>,
                   <<"verify", Store>>, <<"done">>>>
           t2 == s1 \o s2
           t3 == t2 \o s3
           t4 == t3 \o s4
           t5 == t4 \o s5
<1>1. Reclaim = t5
  BY DEF Reclaim, LockWriterCurrent, FreshCopy, ByAnchor
<1>2. /\ IsSeq(s1) /\ IsSeq(s2) /\ IsSeq(s3) /\ IsSeq(s4) /\ IsSeq(s5)
      /\ Len(s1) = 1 /\ Len(s2) = 2 /\ Len(s3) = 8 /\ Len(s4) = 5 /\ Len(s5) = 5
  BY Literals
<1>3. /\ s1[1] = <<"open", Store>>
      /\ s2[1] = <<"lock">> /\ s2[2] = <<"same", Store>>
      /\ s3[1] = <<"verify", Store>> /\ s3[2] = <<"same", Store>> /\ s3[3] = <<"nolog">>
      /\ s3[4] = <<"free">> /\ s3[5] = <<"unlink", Staging>> /\ s3[6] = <<"unlink", Anchor>>
      /\ s3[7] = <<"unlink", CandidateTmp>> /\ s3[8] = <<"unlink", Candidate>>
  OBVIOUS
<1>4. /\ s4[1] = <<"stage", Staging>> /\ s4[2] = <<"birth", Staging>> /\ s4[3] = <<"sync">>
      /\ s4[4] = <<"fill", Staging, Store>> /\ s4[5] = <<"verify", Staging>>
      /\ s5[1] = <<"lockother", Staging>> /\ s5[2] = <<"replace", Staging, Store>>
      /\ s5[3] = <<"sync">> /\ s5[4] = <<"verify", Store>> /\ s5[5] = <<"done">>
  OBVIOUS
<1> HIDE DEF s1, s2, s3, s4, s5
<1>5. /\ IsSeq(t2) /\ Len(t2) = 3
      /\ \A i \in 1 .. 1 : t2[i] = s1[i]
      /\ \A i \in 1 .. 2 : t2[1 + i] = s2[i]
  <2>1. IsSeq(s1) /\ IsSeq(s2)
    BY <1>2
  <2>2. /\ IsSeq(t2) /\ Len(t2) = Len(s1) + Len(s2)
        /\ \A i \in 1 .. Len(s1) : t2[i] = s1[i]
        /\ \A i \in 1 .. Len(s2) : t2[Len(s1) + i] = s2[i]
    BY <2>1, Joined
  <2> QED
    BY <2>2, <1>2
<1> HIDE DEF t2
<1>6. /\ IsSeq(t3) /\ Len(t3) = 11
      /\ \A i \in 1 .. 3 : t3[i] = t2[i]
      /\ \A i \in 1 .. 8 : t3[3 + i] = s3[i]
  <2>1. IsSeq(t2) /\ IsSeq(s3)
    BY <1>2, <1>5
  <2>2. /\ IsSeq(t3) /\ Len(t3) = Len(t2) + Len(s3)
        /\ \A i \in 1 .. Len(t2) : t3[i] = t2[i]
        /\ \A i \in 1 .. Len(s3) : t3[Len(t2) + i] = s3[i]
    BY <2>1, Joined
  <2> QED
    BY SMTT(60), <2>2, <1>2, <1>5
<1> HIDE DEF t3
<1>7. /\ IsSeq(t4) /\ Len(t4) = 16
      /\ \A i \in 1 .. 11 : t4[i] = t3[i]
      /\ \A i \in 1 .. 5 : t4[11 + i] = s4[i]
  <2>1. IsSeq(t3) /\ IsSeq(s4)
    BY <1>2, <1>6
  <2>2. /\ IsSeq(t4) /\ Len(t4) = Len(t3) + Len(s4)
        /\ \A i \in 1 .. Len(t3) : t4[i] = t3[i]
        /\ \A i \in 1 .. Len(s4) : t4[Len(t3) + i] = s4[i]
    BY <2>1, Joined
  <2>3. Len(t3) = 11 /\ Len(s4) = 5
    BY <1>2, <1>6
  <2>4. Len(t3) + Len(s4) = 16
    BY <2>3
  <2> QED
    BY <2>1, <2>2, <2>3, <2>4
<1> HIDE DEF t4
<1>8. /\ IsSeq(t5) /\ Len(t5) = 21
      /\ \A i \in 1 .. 16 : t5[i] = t4[i]
      /\ \A i \in 1 .. 5 : t5[16 + i] = s5[i]
  <2>1. IsSeq(t4) /\ IsSeq(s5)
    BY <1>2, <1>7
  <2>2. /\ IsSeq(t5) /\ Len(t5) = Len(t4) + Len(s5)
        /\ \A i \in 1 .. Len(t4) : t5[i] = t4[i]
        /\ \A i \in 1 .. Len(s5) : t5[Len(t4) + i] = s5[i]
    BY <2>1, Joined
  <2>3. Len(t4) = 16 /\ Len(s5) = 5
    BY <1>2, <1>7
  <2>4. Len(t4) + Len(s5) = 21
    BY <2>3
  <2> QED
    BY <2>1, <2>2, <2>3, <2>4
<1> HIDE DEF t5
<1>9. /\ t5[1] = s1[1] /\ t5[2] = s2[1] /\ t5[3] = s2[2]
  BY <1>5, <1>6, <1>7, <1>8
<1>10. /\ t5[4] = s3[1] /\ t5[5] = s3[2] /\ t5[6] = s3[3] /\ t5[7] = s3[4]
       /\ t5[8] = s3[5] /\ t5[9] = s3[6] /\ t5[10] = s3[7] /\ t5[11] = s3[8]
  BY <1>6, <1>7, <1>8
<1>11. /\ t5[12] = s4[1] /\ t5[13] = s4[2] /\ t5[14] = s4[3] /\ t5[15] = s4[4] /\ t5[16] = s4[5]
  BY <1>7, <1>8
<1>12. /\ t5[17] = s5[1] /\ t5[18] = s5[2] /\ t5[19] = s5[3] /\ t5[20] = s5[4] /\ t5[21] = s5[5]
  BY <1>8
<1> QED
  BY <1>1, <1>3, <1>4, <1>8, <1>9, <1>10, <1>11, <1>12

-----------------------------------------------------------------------------
(* Names and what they stand for. *)

LEMMA NamesApart ==
    /\ Store # Wal /\ Store # Copied /\ Wal # Copied
    /\ Staging \notin Public /\ Anchor \notin Public \cup {Staging}
    /\ Candidate \notin Public \cup {Staging}
    /\ \A p, o : Stage(o, p) \notin Public \cup {Staging, Anchor, Candidate}
    /\ \A p, q, o, a : Stage(o, p) = Stage(a, q) => o = a /\ p = q
  BY SMTT(30) DEF Store, Wal, Copied, Staging, Anchor, Candidate, Stage, Public

LEMMA PosixNamesAre ==
    /\ Store \in PosixNames /\ Wal \in PosixNames /\ Copied \in PosixNames /\ Staging \in PosixNames
    /\ Anchor \notin PosixNames /\ Candidate \notin PosixNames
    /\ \A p \in Processes, o \in {"creating", "backing-up", "restoring"} :
         Stage(o, p) \in PosixNames \ Public
    /\ Staging \in PosixNames \ Public
  BY NamesApart DEF PosixNames, Staged, Public

LEMMA WithoutIs ==
    ASSUME NEW map, NEW n
    PROVE  /\ DOMAIN Without(map, {n}) = DOMAIN map \ {n}
           /\ \A m \in DOMAIN map : m # n => Without(map, {n})[m] = map[m]
           /\ Without(map, {n}) = [m \in DOMAIN map \ {n} |-> map[m]]
  BY DEF Without, Restrict

LEMMA MaxOfTwo ==
    ASSUME NEW a \in Int, NEW b \in Int
    PROVE  Max({a, b}) = IF a >= b THEN a ELSE b
<1> DEFINE c == IF a >= b THEN a ELSE b
<1>1. c \in {a, b} /\ \A y \in {a, b} : c >= y
  OBVIOUS
<1>2. \A x \in {a, b} : (\A y \in {a, b} : x >= y) => x = c
  OBVIOUS
<1> HIDE DEF c
<1>3. (CHOOSE x \in {a, b} : \A y \in {a, b} : x >= y) = c
  BY <1>1, <1>2
<1> QED
  BY <1>3 DEF Max, c

-----------------------------------------------------------------------------
(* A file that nobody knows of. *)

LEMMA ImageFinite ==
    ASSUME NEW S, IsFiniteSet(S), NEW f, DOMAIN f = S
    PROVE  IsFiniteSet({f[x] : x \in S})
<1> DEFINE T == {f[x] : x \in S}
           g == [x \in S |-> f[x]]
<1>1. g \in Surjection(S, T)
  BY DEF Surjection
<1> QED
  BY <1>1, FS_Surjection

LEMMA Triple ==
    ASSUME NEW a, NEW b, NEW c
    PROVE  IsFiniteSet({a, b, c})
<1>1. IsFiniteSet({a} \cup {b})
  BY FS_Singleton, FS_AddElement
<1>2. IsFiniteSet(({a} \cup {b}) \cup {c})
  BY <1>1, FS_AddElement
<1>3. {a, b, c} = ({a} \cup {b}) \cup {c}
  OBVIOUS
<1> QED
  BY <1>2, <1>3

LEMMA PosixNamesFinite == IsFiniteSet(PosixNames)
<1> DEFINE St == [p \in Processes |-> Staged(p)]
           Images == {St[p] : p \in Processes}
<1>1. IsFiniteSet(Public) /\ IsFiniteSet(Public \cup {Staging})
  <2>1. Public = {Store, Wal, Copied} /\ Public \cup {Staging} = {Store, Wal, Copied} \cup {Staging}
    BY DEF Public
  <2> QED
    BY <2>1, Triple, FS_AddElement
<1>2. IsFiniteSet(Images)
  BY InstallAssumption, ImageFinite
<1>3. \A T \in Images : IsFiniteSet(T)
  <2> SUFFICES ASSUME NEW p \in Processes PROVE IsFiniteSet(Staged(p))
    OBVIOUS
  <2>1. Staged(p) = {Stage("creating", p), Stage("backing-up", p), Stage("restoring", p)}
    BY DEF Staged
  <2>2. IsFiniteSet({Stage("creating", p), Stage("backing-up", p), Stage("restoring", p)})
    BY Triple
  <2> QED
    BY <2>1, <2>2
<1>4. IsFiniteSet(UNION Images)
  BY <1>2, <1>3, FS_UNION
<1>5. UNION Images = UNION {Staged(p) : p \in Processes}
  OBVIOUS
<1>6. IsFiniteSet((Public \cup {Staging}) \cup UNION Images)
  BY <1>1, <1>4, FS_Union
<1> QED
  BY <1>5, <1>6 DEF PosixNames

LEMMA Unused ==
    ASSUME NEW S, IsFiniteSet(S)
    PROVE  LET f == Min(1 .. (Cardinality(S) + 1) \ (S \ {Free}))
           IN  f \in Nat \ {0} /\ f \notin S
<1> DEFINE k == Cardinality(S)
           A == 1 .. (k + 1)
           B == S \ {Free}
<1>1. k \in Nat
  BY FS_CardinalityType
<1>2. IsFiniteSet(A) /\ Cardinality(A) = k + 1
  BY <1>1, FS_Interval
<1>3. IsFiniteSet(B) /\ Cardinality(B) <= k /\ Cardinality(B) \in Nat
  BY FS_Subset, FS_CardinalityType
<1>4. ~(A \subseteq B)
  <2> SUFFICES ASSUME A \subseteq B PROVE FALSE
    OBVIOUS
  <2>1. Cardinality(A) <= Cardinality(B)
    BY <1>3, FS_Subset
  <2> QED
    BY <1>1, <1>2, <1>3, <2>1
<1>5. A \ B # {} /\ A \ B \subseteq Nat
  BY <1>1, <1>4
<1>6. PICK m \in A \ B : \A y \in A \ B : m =< y
  <2> DEFINE less == OpToRel(<, Nat)
             T == A \ B
  <2>1. IsWellFoundedOn(less, Nat)
    BY NatLessThanWellFounded
  <2>2. T \subseteq Nat /\ T # {}
    BY <1>5
  <2>3. \A x, y \in Nat : y < x => <<y, x>> \in less
    <3>1. less = {z \in Nat \X Nat : z[1] < z[2]}
      BY Zenon DEF OpToRel
    <3> QED
      BY <3>1
  <2> HIDE DEF less, T
  <2>4. PICK m \in T : \A y \in T : ~(<<y, m>> \in less)
    BY <2>1, <2>2, WFMin
  <2>5. ASSUME NEW y \in T PROVE m =< y
    <3>1. m \in Nat /\ y \in Nat /\ <<y, m>> \notin less
      BY <2>2, <2>4
    <3>2. y < m => <<y, m>> \in less
      BY <2>3, <3>1
    <3> QED
      BY <3>1, <3>2
  <2> QED
    BY <2>5 DEF T
<1>7. Min(A \ B) \in A \ B
  BY <1>6 DEF Min
<1> HIDE DEF k
<1>8. Min(A \ B) # Free
  BY <1>1, <1>7, InstallAssumption
<1> QED
  BY <1>1, <1>7, <1>8 DEF k

LEMMA UsedFinite ==
    ASSUME PosixInv
    PROVE  IsFiniteSet(Used)
<1> USE DEF PosixInv
<1>1. ASSUME NEW d, MapOK(d) PROVE IsFiniteSet(Named(d))
  <2>1. IsFiniteSet(DOMAIN d)
    <3>1. DOMAIN d \subseteq PosixNames
      BY <1>1 DEF MapOK
    <3> QED
      BY <3>1, PosixNamesFinite, FS_Subset
  <2> QED
    BY <2>1, ImageFinite DEF Named
<1>2. IsFiniteSet(Named(names))
  BY <1>1 DEF MapsInv
<1>3. IsFiniteSet(UNION {Named(d) : d \in disk})
  <2> DEFINE N == [d \in disk |-> Named(d)]
             Images == {N[d] : d \in disk}
  <2>1. IsFiniteSet(Images)
    BY ImageFinite DEF MapsInv
  <2>2. \A T \in Images : IsFiniteSet(T)
    BY <1>1 DEF MapsInv
  <2>3. IsFiniteSet(UNION Images)
    BY <2>1, <2>2, FS_UNION
  <2>4. UNION Images = UNION {Named(d) : d \in disk}
    OBVIOUS
  <2> QED
    BY <2>3, <2>4
<1>4. IsFiniteSet(UNION {Named(pending[p]) \cup {handle[p].store, handle[p].other, handle[p].wal} : p \in Processes})
  <2> DEFINE H(p) == Named(pending[p]) \cup {handle[p].store, handle[p].other, handle[p].wal}
             N == [p \in Processes |-> H(p)]
             Images == {N[p] : p \in Processes}
  <2>1. IsFiniteSet(Images)
    BY InstallAssumption, ImageFinite
  <2>2. ASSUME NEW p \in Processes PROVE IsFiniteSet(H(p))
    <3>1. pending[p] = <<>>
      BY DEF TypeOK
    <3>2. Named(pending[p]) = {}
      BY <3>1 DEF Named
    <3>3. H(p) = {handle[p].store, handle[p].other, handle[p].wal}
      BY <3>2
    <3>4. IsFiniteSet({handle[p].store, handle[p].other, handle[p].wal})
      BY Triple
    <3> QED
      BY <3>3, <3>4
  <2>3. IsFiniteSet(UNION Images)
    <3>1. \A T \in Images : IsFiniteSet(T)
      BY <2>2
    <3> QED
      BY <2>1, <3>1, FS_UNION
  <2>4. UNION Images = UNION {H(p) : p \in Processes}
    OBVIOUS
  <2> QED
    BY <2>3, <2>4
<1>5. IsFiniteSet(Named(names) \cup UNION {Named(d) : d \in disk})
  BY <1>2, <1>3, FS_Union
<1> DEFINE A == Named(names) \cup UNION {Named(d) : d \in disk}
           B == UNION {Named(pending[p]) \cup {handle[p].store, handle[p].other, handle[p].wal} : p \in Processes}
<1>6. Used = A \cup B
  BY DEF Used
<1> HIDE DEF A, B
<1>7. IsFiniteSet(A \cup B)
  <2>1. IsFiniteSet(A) /\ IsFiniteSet(B)
    BY <1>4, <1>5 DEF A, B
  <2> QED
    BY <2>1, FS_Union
<1> QED
  BY <1>6, <1>7

LEMMA FreshIs ==
    ASSUME PosixInv
    PROVE  /\ Fresh \in Nat \ {0} /\ Fresh # Free
           /\ \A d \in disk : \A n \in DOMAIN d : d[n] # Fresh
           /\ \A n \in DOMAIN names : names[n] # Fresh
<1>1. Fresh \in Nat \ {0} /\ Fresh \notin Used
  BY UsedFinite, Unused DEF Fresh
<1>2. \A d \in disk : Named(d) \subseteq Used
  BY DEF Used
<1>3. names \in disk
  BY DEF PosixInv, MapsInv
<1> QED
  BY <1>1, <1>2, <1>3, InstallAssumption DEF Named

LEMMA PosixView ==
    ASSUME PosixInv, NEW p \in Processes
    PROVE  /\ View(p) = names /\ pending[p] = <<>> /\ DOMAIN pending[p] = {}
           /\ \A n : Exists(p, n) <=> n \in DOMAIN names
           /\ platform = "posix" /\ ~Windows
<1>1. pending[p] = <<>> /\ DOMAIN pending[p] = {} /\ platform = "posix"
  BY DEF PosixInv, TypeOK
<1>2. names \in [DOMAIN names -> DOMAIN files]
  BY DEF PosixInv, MapsInv, MapOK
<1>3. View(p) = names
  <2>1. Over(pending[p], names) = [n \in DOMAIN names |-> names[n]]
    BY <1>1 DEF Over
  <2> QED
    BY <1>2, <2>1 DEF View
<1> QED
  BY <1>1, <1>3 DEF Exists, Windows

\* Reclaim is the same program for as long as the platform is.
LEMMA ReclaimStays ==
    ASSUME platform' = platform
    PROVE  Reclaim' = Reclaim
  BY DEF Reclaim, ByAnchor, Windows, LockWriterCurrent, FreshCopy, Candidates, Copy

-----------------------------------------------------------------------------
(* Which programs make which calls. *)

LEMMA OpenCalls ==
    ASSUME NEW i \in 1 .. 6, NEW c, OpenStore[i][1] = c
    PROVE  /\ c = "open" => i = 1
           /\ c = "lock" => i = 2
           /\ c = "same" => i = 3
           /\ c = "verify" => i = 4
           /\ c = "sweep" => i = 5
           /\ c = "wal" => i = 6
           /\ c \in {"open", "lock", "same", "verify", "sweep", "wal"}
  BY OpenStoreIs

LEMMA BirthCalls ==
    ASSUME NEW p, NEW i \in 1 .. 10, NEW c, BirthOpen(p)[i][1] = c
    PROVE  /\ c = "stage" => i = 1
           /\ c = "open" => i = 2
           /\ c = "birth" => i = 3
           /\ c = "install" => i = 4
           /\ c = "sync" => i = 5
           /\ c = "lock" => i = 6
           /\ c = "same" => i = 7
           /\ c = "verify" => i = 8
           /\ c = "sweep" => i = 9
           /\ c = "wal" => i = 10
           /\ c \in {"stage", "open", "birth", "install", "sync", "lock", "same", "verify", "sweep", "wal"}
  BY BirthOpenIs

LEMMA LogCalls ==
    ASSUME NEW i \in 1 .. 4, NEW c, NewLog[i][1] = c
    PROVE  /\ c = "create" => i = 1
           /\ c = "birth" => i = 2
           /\ c = "sync" => i = 3
           /\ c = "log" => i = 4
           /\ c \in {"create", "birth", "sync", "log"}
  BY NewLogIs

LEMMA ReclaimCalls ==
    ASSUME ~Windows, NEW i \in 1 .. 21, NEW c, Reclaim[i][1] = c
    PROVE  /\ c = "open" => i = 1
           /\ c = "lock" => i = 2
           /\ c = "same" => i \in {3, 5}
           /\ c = "verify" => i \in {4, 16, 20}
           /\ c = "nolog" => i = 6
           /\ c = "free" => i = 7
           /\ c = "unlink" => i \in 8 .. 11
           /\ c = "stage" => i = 12
           /\ c = "birth" => i = 13
           /\ c = "sync" => i \in {14, 19}
           /\ c = "fill" => i = 15
           /\ c = "lockother" => i = 17
           /\ c = "replace" => i = 18
           /\ c = "done" => i = 21
           /\ c \in {"open", "lock", "same", "verify", "nolog", "free", "unlink", "stage", "birth",
                     "sync", "fill", "lockother", "replace", "done"}
  BY ReclaimIs

LEMMA RestoreCalls ==
    ASSUME NEW p, NEW i \in 1 .. 7, NEW c, RestoreFile(p)[i][1] = c
    PROVE  /\ c = "vacant" => i = 1
           /\ c = "stage" => i = 2
           /\ c = "fill" => i = 3
           /\ c = "verify" => i = 4
           /\ c = "install" => i = 5
           /\ c = "sync" => i = 6
           /\ c = "done" => i = 7
           /\ c \in {"vacant", "stage", "fill", "verify", "install", "sync", "done"}
  BY RestoreIs

LEMMA BackupCalls ==
    ASSUME NEW p, NEW i \in 1 .. 8, NEW c, Backup(p)[i][1] = c
    PROVE  /\ c = "vacant" => i = 1
           /\ c = "stage" => i = 2
           /\ c = "birth" => i = 3
           /\ c = "sync" => i \in {4, 8}
           /\ c = "fill" => i = 5
           /\ c = "verify" => i = 6
           /\ c = "install" => i = 7
           /\ c \in {"vacant", "stage", "birth", "sync", "fill", "verify", "install"}
  BY BackupIs

LEMMA CloseCalls ==
    ASSUME NEW i \in 1 .. 3, NEW c, Closing[i][1] = c
    PROVE  /\ c = "unlink" => i = 1
           /\ c = "sync" => i = 2
           /\ c = "done" => i = 3
           /\ c \in {"unlink", "sync", "done"}
  BY ClosingIs

LEMMA SweepCalls ==
    ASSUME NEW p, Sweeping(p), NEW c, Is(p, c)
    PROVE  c \in {"unlink", "sync"}
  BY DEF Sweeping, Is

LEMMA Lengths ==
    ASSUME ~Windows, NEW p
    PROVE  /\ IsSeq(OpenStore) /\ Len(OpenStore) = 6 /\ IsSeq(BirthOpen(p)) /\ Len(BirthOpen(p)) = 10
           /\ IsSeq(NewLog) /\ Len(NewLog) = 4 /\ IsSeq(Reclaim) /\ Len(Reclaim) = 21
           /\ IsSeq(RestoreFile(p)) /\ Len(RestoreFile(p)) = 7 /\ IsSeq(Backup(p)) /\ Len(Backup(p)) = 8
           /\ IsSeq(Closing) /\ Len(Closing) = 3
  BY OpenStoreIs, BirthOpenIs, NewLogIs, ReclaimIs, RestoreIs, BackupIs, ClosingIs

\* The place of a process, from the call it makes.
LEMMA WhereIs ==
    ASSUME ~Windows, NEW p, Placed(p), NEW c, Is(p, c)
    PROVE  \/ \E i \in 1 .. 6 : OpenAt(p, i) /\ OpenStore[i][1] = c
           \/ \E i \in 1 .. 10 : BirthAt(p, i) /\ BirthOpen(p)[i][1] = c
           \/ Sweeping(p) /\ c \in {"unlink", "sync"}
           \/ \E i \in 1 .. 4 : LogAt(p, i) /\ NewLog[i][1] = c
           \/ \E i \in 1 .. 21 : ReclaimAt(p, i) /\ Reclaim[i][1] = c
           \/ \E i \in 1 .. 7 : RestoreAt(p, i) /\ RestoreFile(p)[i][1] = c
           \/ \E i \in 1 .. 8 : BackupAt(p, i) /\ Backup(p)[i][1] = c
           \/ \E i \in 1 .. 3 : CloseAt(p, i) /\ Closing[i][1] = c
           \/ c = "done"
<1>1. todo[p] # <<>>
  BY DEF Is
<1>2. ASSUME NEW i \in 1 .. 6, OpenAt(p, i) PROVE OpenStore[i][1] = c
  <2>1. IsSeq(OpenStore) /\ i \in 1 .. Len(OpenStore) /\ At(p, OpenStore, i)
    BY <1>2, Lengths DEF OpenAt
  <2> QED
    BY <2>1, NextCall DEF At, Is
<1>3. ASSUME NEW i \in 1 .. 10, BirthAt(p, i) PROVE BirthOpen(p)[i][1] = c
  <2>1. IsSeq(BirthOpen(p)) /\ i \in 1 .. Len(BirthOpen(p)) /\ At(p, BirthOpen(p), i)
    BY <1>3, Lengths DEF BirthAt
  <2> QED
    BY <2>1, NextCall DEF At, Is
<1>4. ASSUME NEW i \in 1 .. 4, LogAt(p, i) PROVE NewLog[i][1] = c
  <2>1. IsSeq(NewLog) /\ i \in 1 .. Len(NewLog) /\ At(p, NewLog, i)
    BY <1>4, Lengths DEF LogAt
  <2> QED
    BY <2>1, NextCall DEF At, Is
<1>5. ASSUME NEW i \in 1 .. 21, ReclaimAt(p, i) PROVE Reclaim[i][1] = c
  <2>1. IsSeq(Reclaim) /\ i \in 1 .. Len(Reclaim) /\ At(p, Reclaim, i)
    BY <1>5, Lengths DEF ReclaimAt
  <2> QED
    BY <2>1, NextCall DEF At, Is
<1>6. ASSUME NEW i \in 1 .. 7, RestoreAt(p, i) PROVE RestoreFile(p)[i][1] = c
  <2>1. IsSeq(RestoreFile(p)) /\ i \in 1 .. Len(RestoreFile(p)) /\ At(p, RestoreFile(p), i)
    BY <1>6, Lengths DEF RestoreAt
  <2> QED
    BY <2>1, NextCall DEF At, Is
<1>7. ASSUME NEW i \in 1 .. 8, BackupAt(p, i) PROVE Backup(p)[i][1] = c
  <2>1. IsSeq(Backup(p)) /\ i \in 1 .. Len(Backup(p)) /\ At(p, Backup(p), i)
    BY <1>7, Lengths DEF BackupAt
  <2> QED
    BY <2>1, NextCall DEF At, Is
<1>8. ASSUME NEW i \in 1 .. 3, CloseAt(p, i) PROVE Closing[i][1] = c
  <2>1. IsSeq(Closing) /\ i \in 1 .. Len(Closing) /\ At(p, Closing, i)
    BY <1>8, Lengths DEF CloseAt
  <2> QED
    BY <2>1, NextCall DEF At, Is
<1>9. Sweeping(p) => c \in {"unlink", "sync"}
  BY SweepCalls
<1>10. Is(p, "done") => c = "done"
  BY DEF Is
<1> QED
  BY <1>1, <1>2, <1>3, <1>4, <1>5, <1>6, <1>7, <1>8, <1>9, <1>10 DEF Placed, Idle

\* The places at which a process makes a call, by program.
LEMMA CallAt ==
    ASSUME ~Windows, NEW p, Placed(p), NEW c, Is(p, c)
    PROVE  c = "done" \/ (Sweeping(p) /\ c \in {"unlink", "sync"})
           \/ (c = "open" /\ OpenAt(p, 1)) \/ (c = "lock" /\ OpenAt(p, 2)) \/ (c = "same" /\ OpenAt(p, 3)) \/
              (c = "verify" /\ OpenAt(p, 4)) \/ (c = "sweep" /\ OpenAt(p, 5)) \/ (c = "wal" /\ OpenAt(p, 6))
           \/ (c = "open" /\ BirthAt(p, 2)) \/ (c = "lock" /\ BirthAt(p, 6)) \/ (c = "same" /\ BirthAt(p, 7)) \/
              (c = "verify" /\ BirthAt(p, 8)) \/ (c = "sweep" /\ BirthAt(p, 9)) \/
              (c = "wal" /\ BirthAt(p, 10)) \/ (c = "stage" /\ BirthAt(p, 1)) \/
              (c = "birth" /\ BirthAt(p, 3)) \/ (c = "install" /\ BirthAt(p, 4)) \/
              (c = "sync" /\ BirthAt(p, 5))
           \/ (c = "birth" /\ LogAt(p, 2)) \/ (c = "sync" /\ LogAt(p, 3)) \/ (c = "create" /\ LogAt(p, 1)) \/
              (c = "log" /\ LogAt(p, 4))
           \/ (c = "open" /\ ReclaimAt(p, 1)) \/ (c = "lock" /\ ReclaimAt(p, 2)) \/
              (c = "same" /\ (ReclaimAt(p, 3) \/ ReclaimAt(p, 5))) \/
              (c = "verify" /\ (ReclaimAt(p, 4) \/ ReclaimAt(p, 16) \/ ReclaimAt(p, 20))) \/
              (c = "stage" /\ ReclaimAt(p, 12)) \/ (c = "birth" /\ ReclaimAt(p, 13)) \/
              (c = "sync" /\ (ReclaimAt(p, 14) \/ ReclaimAt(p, 19))) \/ (c = "nolog" /\ ReclaimAt(p, 6)) \/
              (c = "free" /\ ReclaimAt(p, 7)) \/
              (c = "unlink" /\ (ReclaimAt(p, 8) \/ ReclaimAt(p, 9) \/ ReclaimAt(p, 10) \/ ReclaimAt(p, 11))) \/
              (c = "fill" /\ ReclaimAt(p, 15)) \/ (c = "lockother" /\ ReclaimAt(p, 17)) \/
              (c = "replace" /\ ReclaimAt(p, 18))
           \/ (c = "verify" /\ RestoreAt(p, 4)) \/ (c = "stage" /\ RestoreAt(p, 2)) \/
              (c = "install" /\ RestoreAt(p, 5)) \/ (c = "sync" /\ RestoreAt(p, 6)) \/
              (c = "fill" /\ RestoreAt(p, 3)) \/ (c = "vacant" /\ RestoreAt(p, 1))
           \/ (c = "verify" /\ BackupAt(p, 6)) \/ (c = "stage" /\ BackupAt(p, 2)) \/
              (c = "birth" /\ BackupAt(p, 3)) \/ (c = "install" /\ BackupAt(p, 7)) \/
              (c = "sync" /\ (BackupAt(p, 4) \/ BackupAt(p, 8))) \/ (c = "fill" /\ BackupAt(p, 5)) \/
              (c = "vacant" /\ BackupAt(p, 1))
           \/ (c = "sync" /\ CloseAt(p, 2)) \/ (c = "unlink" /\ CloseAt(p, 1))
<1>1. ASSUME NEW i \in 1 .. 6, OpenAt(p, i), OpenStore[i][1] = c
      PROVE  c = "done" \/ (c = "open" /\ OpenAt(p, 1)) \/ (c = "lock" /\ OpenAt(p, 2)) \/ (c = "same" /\ OpenAt(p, 3)) \/
             (c = "verify" /\ OpenAt(p, 4)) \/ (c = "sweep" /\ OpenAt(p, 5)) \/ (c = "wal" /\ OpenAt(p, 6))
  BY <1>1, OpenCalls
<1>2. ASSUME NEW i \in 1 .. 10, BirthAt(p, i), BirthOpen(p)[i][1] = c
      PROVE  c = "done" \/ (c = "open" /\ BirthAt(p, 2)) \/ (c = "lock" /\ BirthAt(p, 6)) \/ (c = "same" /\ BirthAt(p, 7)) \/
             (c = "verify" /\ BirthAt(p, 8)) \/ (c = "sweep" /\ BirthAt(p, 9)) \/
             (c = "wal" /\ BirthAt(p, 10)) \/ (c = "stage" /\ BirthAt(p, 1)) \/
             (c = "birth" /\ BirthAt(p, 3)) \/ (c = "install" /\ BirthAt(p, 4)) \/
             (c = "sync" /\ BirthAt(p, 5))
  BY <1>2, BirthCalls
<1>3. ASSUME NEW i \in 1 .. 4, LogAt(p, i), NewLog[i][1] = c
      PROVE  c = "done" \/ (c = "birth" /\ LogAt(p, 2)) \/ (c = "sync" /\ LogAt(p, 3)) \/ (c = "create" /\ LogAt(p, 1)) \/
             (c = "log" /\ LogAt(p, 4))
  BY <1>3, LogCalls
<1>4. ASSUME NEW i \in 1 .. 21, ReclaimAt(p, i), Reclaim[i][1] = c
      PROVE  c = "done" \/ (c = "open" /\ ReclaimAt(p, 1)) \/ (c = "lock" /\ ReclaimAt(p, 2)) \/
             (c = "same" /\ (ReclaimAt(p, 3) \/ ReclaimAt(p, 5))) \/
             (c = "verify" /\ (ReclaimAt(p, 4) \/ ReclaimAt(p, 16) \/ ReclaimAt(p, 20))) \/
             (c = "stage" /\ ReclaimAt(p, 12)) \/ (c = "birth" /\ ReclaimAt(p, 13)) \/
             (c = "sync" /\ (ReclaimAt(p, 14) \/ ReclaimAt(p, 19))) \/ (c = "nolog" /\ ReclaimAt(p, 6)) \/
             (c = "free" /\ ReclaimAt(p, 7)) \/
             (c = "unlink" /\ (ReclaimAt(p, 8) \/ ReclaimAt(p, 9) \/ ReclaimAt(p, 10) \/ ReclaimAt(p, 11))) \/
             (c = "fill" /\ ReclaimAt(p, 15)) \/ (c = "lockother" /\ ReclaimAt(p, 17)) \/
             (c = "replace" /\ ReclaimAt(p, 18))
  BY <1>4, ReclaimCalls
<1>5. ASSUME NEW i \in 1 .. 7, RestoreAt(p, i), RestoreFile(p)[i][1] = c
      PROVE  c = "done" \/ (c = "verify" /\ RestoreAt(p, 4)) \/ (c = "stage" /\ RestoreAt(p, 2)) \/
             (c = "install" /\ RestoreAt(p, 5)) \/ (c = "sync" /\ RestoreAt(p, 6)) \/
             (c = "fill" /\ RestoreAt(p, 3)) \/ (c = "vacant" /\ RestoreAt(p, 1))
  BY <1>5, RestoreCalls
<1>6. ASSUME NEW i \in 1 .. 8, BackupAt(p, i), Backup(p)[i][1] = c
      PROVE  c = "done" \/ (c = "verify" /\ BackupAt(p, 6)) \/ (c = "stage" /\ BackupAt(p, 2)) \/
             (c = "birth" /\ BackupAt(p, 3)) \/ (c = "install" /\ BackupAt(p, 7)) \/
             (c = "sync" /\ (BackupAt(p, 4) \/ BackupAt(p, 8))) \/ (c = "fill" /\ BackupAt(p, 5)) \/
             (c = "vacant" /\ BackupAt(p, 1))
  BY <1>6, BackupCalls
<1>7. ASSUME NEW i \in 1 .. 3, CloseAt(p, i), Closing[i][1] = c
      PROVE  c = "done" \/ (c = "sync" /\ CloseAt(p, 2)) \/ (c = "unlink" /\ CloseAt(p, 1))
  BY <1>7, CloseCalls
<1> QED
  BY <1>1, <1>2, <1>3, <1>4, <1>5, <1>6, <1>7, WhereIs

\* Who makes a call.
LEMMA Callers ==
    ASSUME ~Windows, NEW p, Placed(p)
    PROVE
    /\ Is(p, "open") =>
           OpenAt(p, 1) \/ BirthAt(p, 2) \/ ReclaimAt(p, 1)
    /\ Is(p, "lock") =>
           OpenAt(p, 2) \/ BirthAt(p, 6) \/ ReclaimAt(p, 2)
    /\ Is(p, "same") =>
           OpenAt(p, 3) \/ BirthAt(p, 7) \/ ReclaimAt(p, 3) \/ ReclaimAt(p, 5)
    /\ Is(p, "verify") =>
           OpenAt(p, 4) \/ BirthAt(p, 8) \/ ReclaimAt(p, 4) \/ ReclaimAt(p, 16) \/ ReclaimAt(p, 20) \/
           RestoreAt(p, 4) \/ BackupAt(p, 6)
    /\ Is(p, "sweep") =>
           OpenAt(p, 5) \/ BirthAt(p, 9)
    /\ Is(p, "wal") =>
           OpenAt(p, 6) \/ BirthAt(p, 10)
    /\ Is(p, "stage") =>
           BirthAt(p, 1) \/ ReclaimAt(p, 12) \/ RestoreAt(p, 2) \/ BackupAt(p, 2)
    /\ Is(p, "birth") =>
           BirthAt(p, 3) \/ LogAt(p, 2) \/ ReclaimAt(p, 13) \/ BackupAt(p, 3)
    /\ Is(p, "fill") =>
           ReclaimAt(p, 15) \/ RestoreAt(p, 3) \/ BackupAt(p, 5)
    /\ Is(p, "create") =>
           LogAt(p, 1)
    /\ Is(p, "install") =>
           BirthAt(p, 4) \/ RestoreAt(p, 5) \/ BackupAt(p, 7)
    /\ Is(p, "replace") =>
           ReclaimAt(p, 18)
    /\ Is(p, "sync") =>
           BirthAt(p, 5) \/ Sweeping(p) \/ LogAt(p, 3) \/ ReclaimAt(p, 14) \/ ReclaimAt(p, 19) \/
           RestoreAt(p, 6) \/ BackupAt(p, 4) \/ BackupAt(p, 8) \/ CloseAt(p, 2)
    /\ Is(p, "unlink") =>
           Sweeping(p) \/ ReclaimAt(p, 8) \/ ReclaimAt(p, 9) \/ ReclaimAt(p, 10) \/ ReclaimAt(p, 11) \/
           CloseAt(p, 1)
    /\ Is(p, "nolog") =>
           ReclaimAt(p, 6)
    /\ Is(p, "free") =>
           ReclaimAt(p, 7)
    /\ Is(p, "lockother") =>
           ReclaimAt(p, 17)
    /\ Is(p, "vacant") =>
           RestoreAt(p, 1) \/ BackupAt(p, 1)
    /\ Is(p, "log") =>
           LogAt(p, 4)
    /\ ~Is(p, "lockanchor") /\ ~Is(p, "unlock")
<1>1. ASSUME Is(p, "open")
      PROVE  OpenAt(p, 1) \/ BirthAt(p, 2) \/ ReclaimAt(p, 1)
  BY <1>1, CallAt
<1>2. ASSUME Is(p, "lock")
      PROVE  OpenAt(p, 2) \/ BirthAt(p, 6) \/ ReclaimAt(p, 2)
  BY <1>2, CallAt
<1>3. ASSUME Is(p, "same")
      PROVE  OpenAt(p, 3) \/ BirthAt(p, 7) \/ ReclaimAt(p, 3) \/ ReclaimAt(p, 5)
  BY <1>3, CallAt
<1>4. ASSUME Is(p, "verify")
      PROVE  OpenAt(p, 4) \/ BirthAt(p, 8) \/ ReclaimAt(p, 4) \/ ReclaimAt(p, 16) \/ ReclaimAt(p, 20) \/
           RestoreAt(p, 4) \/ BackupAt(p, 6)
  BY <1>4, CallAt
<1>5. ASSUME Is(p, "sweep")
      PROVE  OpenAt(p, 5) \/ BirthAt(p, 9)
  BY <1>5, CallAt
<1>6. ASSUME Is(p, "wal")
      PROVE  OpenAt(p, 6) \/ BirthAt(p, 10)
  BY <1>6, CallAt
<1>7. ASSUME Is(p, "stage")
      PROVE  BirthAt(p, 1) \/ ReclaimAt(p, 12) \/ RestoreAt(p, 2) \/ BackupAt(p, 2)
  BY <1>7, CallAt
<1>8. ASSUME Is(p, "birth")
      PROVE  BirthAt(p, 3) \/ LogAt(p, 2) \/ ReclaimAt(p, 13) \/ BackupAt(p, 3)
  BY <1>8, CallAt
<1>9. ASSUME Is(p, "fill")
      PROVE  ReclaimAt(p, 15) \/ RestoreAt(p, 3) \/ BackupAt(p, 5)
  BY <1>9, CallAt
<1>10. ASSUME Is(p, "create")
      PROVE  LogAt(p, 1)
  BY <1>10, CallAt
<1>11. ASSUME Is(p, "install")
      PROVE  BirthAt(p, 4) \/ RestoreAt(p, 5) \/ BackupAt(p, 7)
  BY <1>11, CallAt
<1>12. ASSUME Is(p, "replace")
      PROVE  ReclaimAt(p, 18)
  BY <1>12, CallAt
<1>13. ASSUME Is(p, "sync")
      PROVE  BirthAt(p, 5) \/ Sweeping(p) \/ LogAt(p, 3) \/ ReclaimAt(p, 14) \/ ReclaimAt(p, 19) \/
           RestoreAt(p, 6) \/ BackupAt(p, 4) \/ BackupAt(p, 8) \/ CloseAt(p, 2)
  BY <1>13, CallAt
<1>14. ASSUME Is(p, "unlink")
      PROVE  Sweeping(p) \/ ReclaimAt(p, 8) \/ ReclaimAt(p, 9) \/ ReclaimAt(p, 10) \/ ReclaimAt(p, 11) \/
           CloseAt(p, 1)
  BY <1>14, CallAt
<1>15. ASSUME Is(p, "nolog")
      PROVE  ReclaimAt(p, 6)
  BY <1>15, CallAt
<1>16. ASSUME Is(p, "free")
      PROVE  ReclaimAt(p, 7)
  BY <1>16, CallAt
<1>17. ASSUME Is(p, "lockother")
      PROVE  ReclaimAt(p, 17)
  BY <1>17, CallAt
<1>18. ASSUME Is(p, "vacant")
      PROVE  RestoreAt(p, 1) \/ BackupAt(p, 1)
  BY <1>18, CallAt
<1>19. ASSUME Is(p, "log")
      PROVE  LogAt(p, 4)
  BY <1>19, CallAt
<1>20. ASSUME Is(p, "lockanchor") PROVE FALSE
  BY <1>20, CallAt
<1>21. ASSUME Is(p, "unlock") PROVE FALSE
  BY <1>21, CallAt
<1> QED
  BY <1>1, <1>2, <1>3, <1>4, <1>5, <1>6, <1>7, <1>8, <1>9, <1>10, <1>11, <1>12, <1>13, <1>14,
     <1>15, <1>16, <1>17, <1>18, <1>19, <1>20, <1>21

\* A process at the i-th call of a program, and what is left after it.
Onward(p, s, i) ==
    /\ todo[p] # <<>> /\ Head(todo[p]) = s[i] /\ Tail(todo[p]) = From(s, i + 1)
    /\ IsSeq(From(s, i + 1)) /\ IsSeq(Tail(todo[p]))
    /\ GoesOn(p) => todo' = [todo EXCEPT ![p] = From(s, i + 1)]

LEMMA AtOnward ==
    ASSUME NEW s, NEW i \in 1 .. Len(s), NEW p, At(p, s, i), IsSeq(s)
    PROVE  Onward(p, s, i)
<1>1. /\ todo[p] # <<>> /\ Head(todo[p]) = s[i] /\ Tail(todo[p]) = From(s, i + 1)
      /\ IsSeq(From(s, i + 1)) /\ <<>> \o Tail(todo[p]) = From(s, i + 1)
  BY NextCall DEF At
<1>2. [todo EXCEPT ![p] = <<>> \o Tail(@)] = [todo EXCEPT ![p] = From(s, i + 1)]
  BY <1>1
<1> QED
  BY <1>1, <1>2 DEF Onward, GoesOn, Goes

LEMMA PlacesOnward ==
    ASSUME ~Windows, NEW p
    PROVE  /\ \A i \in 1 .. 6 : OpenAt(p, i) => Onward(p, OpenStore, i)
           /\ \A i \in 1 .. 10 : BirthAt(p, i) => Onward(p, BirthOpen(p), i)
           /\ \A i \in 1 .. 4 : LogAt(p, i) => Onward(p, NewLog, i)
           /\ \A i \in 1 .. 21 : ReclaimAt(p, i) => Onward(p, Reclaim, i)
           /\ \A i \in 1 .. 7 : RestoreAt(p, i) => Onward(p, RestoreFile(p), i)
           /\ \A i \in 1 .. 8 : BackupAt(p, i) => Onward(p, Backup(p), i)
           /\ \A i \in 1 .. 3 : CloseAt(p, i) => Onward(p, Closing, i)
<1>1. ASSUME NEW i \in 1 .. 6, OpenAt(p, i) PROVE Onward(p, OpenStore, i)
  BY <1>1, Lengths, AtOnward DEF OpenAt
<1>2. ASSUME NEW i \in 1 .. 10, BirthAt(p, i) PROVE Onward(p, BirthOpen(p), i)
  BY <1>2, Lengths, AtOnward DEF BirthAt
<1>3. ASSUME NEW i \in 1 .. 4, LogAt(p, i) PROVE Onward(p, NewLog, i)
  BY <1>3, Lengths, AtOnward DEF LogAt
<1>4. ASSUME NEW i \in 1 .. 21, ReclaimAt(p, i) PROVE Onward(p, Reclaim, i)
  BY <1>4, Lengths, AtOnward DEF ReclaimAt
<1>5. ASSUME NEW i \in 1 .. 7, RestoreAt(p, i) PROVE Onward(p, RestoreFile(p), i)
  BY <1>5, Lengths, AtOnward DEF RestoreAt
<1>6. ASSUME NEW i \in 1 .. 8, BackupAt(p, i) PROVE Onward(p, Backup(p), i)
  BY <1>6, Lengths, AtOnward DEF BackupAt
<1>7. ASSUME NEW i \in 1 .. 3, CloseAt(p, i) PROVE Onward(p, Closing, i)
  BY <1>7, Lengths, AtOnward DEF CloseAt
<1> QED
  BY <1>1, <1>2, <1>3, <1>4, <1>5, <1>6, <1>7

-----------------------------------------------------------------------------
(* What a step of one process leaves to the others. *)

Handle == [store : DOMAIN files \cup {Free}, other : DOMAIN files \cup {Free}, wal : DOMAIN files \cup {Free}]

\* The calls of p are t now, its handle is h, and at most a lock of its own is taken or released.
Alone(p, t, h) ==
    /\ todo' = [todo EXCEPT ![p] = t] /\ handle' = [handle EXCEPT ![p] = h]
    /\ locked' = locked \/ locked' = Released(p) \/ \E f : Lockable(p, f) /\ locked' = Put(locked, f, p)
    /\ UNCHANGED <<platform, pending>>

LEMMA AloneIs ==
    ASSUME PosixInv, NEW p \in Processes, NEW t, NEW h, Alone(p, t, h)
    PROVE  /\ DOMAIN todo' = Processes /\ DOMAIN handle' = Processes
           /\ todo'[p] = t /\ handle'[p] = h
           /\ \A q \in Processes \ {p} : todo'[q] = todo[q] /\ handle'[q] = handle[q]
           /\ \A q \in Processes \ {p} : \A f : Holds(q, f) => Holds(q, f)'
           /\ locked' \in [DOMAIN locked' -> Processes]
           /\ platform' = platform
<1> USE DEF PosixInv, TypeOK, Alone
<1>1. DOMAIN todo = Processes /\ DOMAIN handle = Processes /\ locked \in [DOMAIN locked -> Processes]
  OBVIOUS
<1>2. CASE locked' = locked
  BY <1>1, <1>2 DEF Holds
<1>3. CASE locked' = Released(p)
  <2>1. /\ DOMAIN locked' = {f \in DOMAIN locked : locked[f] # p}
        /\ \A f \in DOMAIN locked' : locked'[f] = locked[f]
        /\ locked' \in [DOMAIN locked' -> Processes]
    BY <1>1, <1>3 DEF Released, Restrict
  <2> QED
    BY <1>1, <2>1 DEF Holds
<1>4. ASSUME NEW f, Lockable(p, f), locked' = Put(locked, f, p)
      PROVE  /\ \A q \in Processes \ {p} : \A g : Holds(q, g) => Holds(q, g)'
             /\ locked' \in [DOMAIN locked' -> Processes]
  <2>1. /\ DOMAIN locked' = DOMAIN locked \cup {f} /\ locked'[f] = p
        /\ \A g \in DOMAIN locked : g # f => locked'[g] = locked[g]
        /\ locked' = [g \in DOMAIN locked \cup {f} |-> IF g = f THEN p ELSE locked[g]]
    BY <1>4 DEF Put
  <2>2. f \in DOMAIN locked => locked[f] = p
    BY <1>4 DEF Lockable
  <2>3. locked' \in [DOMAIN locked' -> Processes]
    BY <1>1, <2>1
  <2> QED
    BY <2>1, <2>2, <2>3 DEF Holds
<1>5. /\ \A q \in Processes \ {p} : \A f : Holds(q, f) => Holds(q, f)'
      /\ locked' \in [DOMAIN locked' -> Processes]
  BY <1>2, <1>3, <1>4
<1> QED
  BY <1>1, <1>5

\* What the owner of the store relies on, and what whoever stages a file does.
NamesKept(q) ==
    Owns(q) => \A n \in {Store, Wal, Staging} :
                  /\ n \in DOMAIN names' <=> n \in DOMAIN names
                  /\ n \in DOMAIN names => names'[n] = names[n] /\ files'[names[n]] = files[names[n]]

StageKept(q) ==
    \A n \in Staged(q) : n \in DOMAIN names' =>
        n \in DOMAIN names /\ names'[n] = names[n] /\ files'[names[n]] = files[names[n]]

LEMMA StaysPlaced ==
    ASSUME NEW q \in Processes, Placed(q), platform' = platform,
           todo'[q] = todo[q], handle'[q] = handle[q], \A f : Holds(q, f) => Holds(q, f)',
           NamesKept(q), StageKept(q)
    PROVE  Placed(q)'
<1> DEFINE Kept(n) == n \in DOMAIN names => names'[n] = names[n] /\ files'[names[n]] = files[names[n]]
<1>1. /\ Locked(q) => Locked(q)'
      /\ Owns(q) => /\ Owns(q)' /\ names'[Store] = names[Store]
                    /\ Wal \in DOMAIN names' <=> Wal \in DOMAIN names
                    /\ Staging \in DOMAIN names' <=> Staging \in DOMAIN names
                    /\ Kept(Store) /\ Kept(Wal) /\ Kept(Staging)
  BY DEF Locked, Owns, NamesKept
<1>2. /\ Owned(q) => Owned(q)' /\ Owns(q) /\ Store \in DOMAIN names
      /\ Owns(q) /\ LogEmpty => LogEmpty'
      /\ Owned(q) /\ Compacted => Compacted'
  BY <1>1 DEF Owned, Owns, LogEmpty, Compacted
<1>3. /\ \A n \in Staged(q) : WholeIf(n) => WholeIf(n)'
      /\ Stage("creating", q) \in Staged(q) /\ Stage("restoring", q) \in Staged(q)
      /\ Stage("backing-up", q) \in Staged(q)
  BY DEF StageKept, WholeIf, Staged
<1>4. /\ \A s, i : At(q, s, i) => At(q, s, i)'
      /\ Reclaim' = Reclaim
  BY ReclaimStays DEF At
<1>5. ASSUME NEW i \in 1 .. 6, OpenAt(q, i) PROVE OpenAt(q, i)'
  BY <1>1, <1>2, <1>4, <1>5 DEF OpenAt
<1>6. ASSUME NEW i \in 1 .. 10, BirthAt(q, i) PROVE BirthAt(q, i)'
  BY <1>1, <1>2, <1>3, <1>4, <1>6 DEF BirthAt
<1>7. ASSUME Sweeping(q) PROVE Sweeping(q)'
  BY <1>2, <1>7 DEF Sweeping
<1>8. ASSUME NEW i \in 1 .. 4, LogAt(q, i) PROVE LogAt(q, i)'
  BY <1>1, <1>2, <1>4, <1>8 DEF LogAt
<1>9. ASSUME NEW i \in 1 .. 21, ReclaimAt(q, i) PROVE ReclaimAt(q, i)'
  <2>1. At(q, Reclaim, i)' /\ (handle[q].wal = Free)'
    BY <1>4, <1>9 DEF ReclaimAt, At
  <2>2. (i = 3 => Locked(q)) /\ (i \in 4 .. 18 => Owned(q)) /\ (i \in 19 .. 20 => Owns(q))
        /\ (i \in 7 .. 18 => LogEmpty) /\ (i \in 16 .. 18 => Compacted)
        /\ (i = 18 => Staging \in DOMAIN names /\ Holds(q, names[Staging]))
    BY <1>9 DEF ReclaimAt
  <2>3. (i = 3 => Locked(q)') /\ (i \in 4 .. 18 => Owned(q)') /\ (i \in 19 .. 20 => Owns(q)')
    BY <1>1, <1>2, <2>2
  <2>4. (i \in 7 .. 18 => LogEmpty') /\ (i \in 16 .. 18 => Compacted')
    BY <1>1, <1>2, <2>2
  <2>5. i = 18 => Staging \in DOMAIN names' /\ Holds(q, names[Staging])' /\ names'[Staging] = names[Staging]
    BY <1>1, <1>2, <2>2
  <2>6. (i = 18 => Staging \in DOMAIN names /\ Holds(q, names[Staging]))'
    BY <2>5 DEF Holds
  <2> QED
    BY <2>1, <2>3, <2>4, <2>6 DEF ReclaimAt
<1>10. ASSUME NEW i \in 1 .. 7, RestoreAt(q, i) PROVE RestoreAt(q, i)'
  BY <1>3, <1>4, <1>10 DEF RestoreAt
<1>11. Writer(q) => Writer(q)'
  BY <1>1, <1>2 DEF Writer
<1>12. ASSUME NEW i \in 1 .. 8, BackupAt(q, i) PROVE BackupAt(q, i)'
  BY <1>3, <1>4, <1>11, <1>12 DEF BackupAt
<1>13. ASSUME NEW i \in 1 .. 3, CloseAt(q, i) PROVE CloseAt(q, i)'
  BY <1>1, <1>2, <1>4, <1>13 DEF CloseAt
<1>14. (Idle(q) => Idle(q)') /\ (Is(q, "done") => Is(q, "done")')
  BY DEF Idle, Is
<1> QED
  BY <1>5, <1>6, <1>7, <1>8, <1>9, <1>10, <1>11, <1>12, <1>13, <1>14 DEF Placed

LEMMA TypeKeeps ==
    ASSUME PosixInv, NEW p \in Processes, NEW t, IsSeq(t), NEW h \in Handle, Alone(p, t, h),
           DOMAIN files \subseteq DOMAIN files', DOMAIN files' \subseteq Nat \ {0},
           files' \in [DOMAIN files' -> FileType],
           acked' \in Nat, promised' \in Nat, unsettled' \in BOOLEAN
    PROVE  TypeOK'
<1>1. TypeOK
  BY DEF PosixInv
<1>2. /\ DOMAIN todo' = Processes /\ todo'[p] = t
      /\ \A q \in Processes \ {p} : todo'[q] = todo[q]
      /\ locked' \in [DOMAIN locked' -> Processes]
  BY AloneIs
<1>3. \A q \in Processes : IsSeq(todo'[q])
  <2>1. \A q \in Processes : IsSeq(todo[q])
    BY <1>1 DEF TypeOK, IsSeq
  <2> QED
    BY <1>2, <2>1
<1>4. handle' \in [Processes -> [store : DOMAIN files' \cup {Free}, other : DOMAIN files' \cup {Free},
                                 wal : DOMAIN files' \cup {Free}]]
  <2>1. handle' \in [Processes -> Handle]
    BY <1>1 DEF TypeOK, Alone, Handle
  <2>2. Handle \subseteq [store : DOMAIN files' \cup {Free}, other : DOMAIN files' \cup {Free},
                          wal : DOMAIN files' \cup {Free}]
    BY DEF Handle
  <2> QED
    BY <2>1, <2>2
<1>5. platform' = "posix" /\ pending' = [q \in Processes |-> <<>>]
  BY <1>1 DEF TypeOK, Alone
<1> QED
  BY <1>2, <1>3, <1>4, <1>5 DEF TypeOK, IsSeq

-----------------------------------------------------------------------------
(* Steps that change no name and no file. *)

LEMMA SettledKeeps ==
    ASSUME PosixInv, NEW p \in Processes, UNCHANGED <<names, disk, acked, promised, unsettled>>,
           ~Is(p, "sync"), ~Unsynced(p),
           \A q \in Processes \ {p} : todo'[q] = todo[q],
           \A q \in Processes \ {p} : \A f : Holds(q, f) => Holds(q, f)'
    PROVE  SettledInv'
<1> SUFFICES ASSUME ~unsettled
             PROVE  /\ Settled(disk, names) => promised = acked
                    /\ Wal \in DOMAIN names => Settled(disk, names) \/ \E q \in Processes : Unsynced(q)'
                    /\ (\A q \in Processes : ~Is(q, "sync")') => promised = acked
  BY DEF SettledInv, Settled
<1>1. /\ Settled(disk, names) => promised = acked
      /\ Wal \in DOMAIN names => Settled(disk, names) \/ \E q \in Processes : Unsynced(q)
      /\ (\A q \in Processes : ~Is(q, "sync")) => promised = acked
  BY DEF PosixInv, SettledInv
<1>2. ASSUME NEW q \in Processes, Unsynced(q) PROVE Unsynced(q)'
  <2>1. q \in Processes \ {p}
    BY <1>2
  <2>2. todo'[q] = todo[q] /\ \A f : Holds(q, f) => Holds(q, f)'
    BY <2>1
  <2> QED
    BY <1>2, <2>2 DEF Unsynced, Owns, Is, At
<1>3. ASSUME NEW q \in Processes, Is(q, "sync") PROVE Is(q, "sync")'
  <2>1. q \in Processes \ {p}
    BY <1>3
  <2> QED
    BY <1>3, <2>1 DEF Is
<1> QED
  BY <1>1, <1>2, <1>3

LEMMA OthersPlaced ==
    ASSUME PosixInv, NEW p \in Processes, NEW t, NEW h, Alone(p, t, h),
           \A q \in Processes \ {p} : NamesKept(q) /\ StageKept(q)
    PROVE  \A q \in Processes \ {p} : Placed(q)'
<1> SUFFICES ASSUME NEW q \in Processes \ {p} PROVE Placed(q)'
  OBVIOUS
<1>1. /\ todo'[q] = todo[q] /\ handle'[q] = handle[q] /\ platform' = platform
      /\ \A f : Holds(q, f) => Holds(q, f)'
  BY AloneIs
<1>2. Placed(q)
  BY DEF PosixInv
<1> QED
  BY <1>1, <1>2, StaysPlaced

LEMMA QuietKeeps ==
    ASSUME PosixInv, NEW p \in Processes, NEW t, IsSeq(t), NEW h \in Handle, Alone(p, t, h),
           UNCHANGED <<names, disk, files, acked, promised, unsettled>>,
           ~Is(p, "sync"), ~Unsynced(p), Placed(p)'
    PROVE  PosixInv'
<1>1. TypeOK'
  BY TypeKeeps DEF PosixInv, TypeOK
<1>2. MapsInv' /\ ApartInv' /\ WholeInv' /\ OrderInv'
  BY DEF PosixInv, MapsInv, MapOK, ApartInv, WholeInv, OrderInv
<1>3. RevisionInv'
  BY DEF PosixInv, RevisionInv, Recovered, Log
<1>4. SettledInv'
  <2>1. /\ \A q \in Processes \ {p} : todo'[q] = todo[q]
        /\ \A q \in Processes \ {p} : \A f : Holds(q, f) => Holds(q, f)'
    BY AloneIs
  <2> QED
    BY <2>1, SettledKeeps
<1>5. \A q \in Processes \ {p} : NamesKept(q) /\ StageKept(q)
  BY DEF NamesKept, StageKept
<1>6. \A q \in Processes \ {p} : Placed(q)'
  BY <1>5, OthersPlaced
<1> QED
  BY <1>1, <1>2, <1>3, <1>4, <1>6 DEF PosixInv

\* Only a process about to make what it created durable is at such a call.
LEMMA NotUnsynced ==
    ASSUME NEW p \in Processes, NEW c, Is(p, c), c # "sync", c = "birth" => Wal \notin DOMAIN names
    PROVE  ~Is(p, "sync") /\ ~Unsynced(p)
<1>1. At(p, NewLog, 2) => Is(p, "birth")
  <2>1. IsSeq(NewLog) /\ 2 \in 1 .. Len(NewLog) /\ NewLog[2][1] = "birth"
    BY NewLogIs
  <2>2. From(NewLog, 2) # <<>> /\ Head(From(NewLog, 2)) = NewLog[2]
    BY <2>1, NextCall
  <2> QED
    BY <2>1, <2>2 DEF At, Is
<1>2. \A d : Is(p, d) => d = c
  BY DEF Is
<1> QED
  BY <1>1, <1>2 DEF Unsynced

LEMMA RefusedKeeps ==
    ASSUME PosixInv, NEW p \in Processes, Refused(p), ~Is(p, "sync"), ~Unsynced(p)
    PROVE  PosixInv'
<1>1. Nobody \in Handle /\ IsSeq(<<>>)
  BY Literals DEF Nobody, Handle
<1>2. UNCHANGED <<platform, pending, names, disk, files, acked, promised, unsettled>>
  <2>1. pending = [q \in Processes |-> <<>>]
    BY DEF PosixInv, TypeOK
  <2> QED
    BY <2>1 DEF Refused, history
<1>3. Alone(p, <<>>, Nobody)
  BY <1>2 DEF Refused, Alone
<1>4. Idle(p)'
  <2>1. todo'[p] = <<>> /\ handle'[p] = Nobody
    BY <1>3, AloneIs
  <2> QED
    BY <2>1 DEF Idle, Nobody
<1> QED
  BY <1>1, <1>2, <1>3, <1>4, QuietKeeps DEF Placed

\* A call that only takes files and locks, and the place after it.
LEMMA HandlesKeeps ==
    ASSUME PosixInv, NEW p \in Processes, NEW c, Is(p, c), c \notin {"sync", "birth"},
           NEW allowed, NEW h, NEW locks, Handles(p, allowed, h, locks),
           allowed => /\ h \in Handle
                      /\ locks = locked \/ \E f : Lockable(p, f) /\ locks = Put(locked, f, p),
           IsSeq(Tail(todo[p])),
           allowed /\ GoesOn(p) /\ Alone(p, Tail(todo[p]), h)
             /\ UNCHANGED <<names, disk, files>> /\ locked' = locks => Placed(p)'
    PROVE  PosixInv'
<1>1. ~Is(p, "sync") /\ ~Unsynced(p)
  BY NotUnsynced
<1>2. CASE ~allowed
  BY <1>1, <1>2, RefusedKeeps DEF Handles
<1>3. CASE allowed
  <2>1. /\ GoesOn(p) /\ handle' = [handle EXCEPT ![p] = h] /\ locked' = locks
        /\ UNCHANGED <<platform, names, disk, pending, files, acked, promised, unsettled>>
    BY <1>3 DEF Handles, space, history
  <2>2. <<>> \o Tail(todo[p]) = Tail(todo[p])
    BY ConcatEmptySeq DEF IsSeq
  <2>3. todo' = [todo EXCEPT ![p] = Tail(todo[p])]
    BY <2>1, <2>2 DEF GoesOn, Goes
  <2>4. Alone(p, Tail(todo[p]), h)
    BY <1>3, <2>1, <2>3 DEF Alone
  <2>5. Placed(p)'
    BY <1>3, <2>1, <2>4
  <2> QED
    BY <1>1, <1>3, <2>1, <2>4, <2>5, QuietKeeps
<1> QED
  BY <1>2, <1>3

-----------------------------------------------------------------------------
(* From a place to the next. *)

LEMMA Moved ==
    ASSUME PosixInv, NEW p \in Processes, NEW s, NEW i, Onward(p, s, i), NEW h, Alone(p, Tail(todo[p]), h)
    PROVE  todo'[p] = From(s, i + 1) /\ handle'[p] = h /\ platform' = platform
<1>1. todo'[p] = Tail(todo[p]) /\ handle'[p] = h /\ platform' = platform
  BY AloneIs
<1> QED
  BY <1>1 DEF Onward

LEMMA OpenNext ==
    ASSUME PosixInv, NEW p \in Processes, NEW i \in 1 .. 5, OpenAt(p, i),
           NEW h, Alone(p, Tail(todo[p]), h),
           h.wal = Free,
           i = 2 => Locked(p)',
           i >= 3 => Owned(p)'
    PROVE  OpenAt(p, i + 1)' /\ Placed(p)'
<1>1. ~Windows
  BY PosixView
<1>2. Onward(p, OpenStore, i)
  BY <1>1, PlacesOnward
<1>3. todo'[p] = From(OpenStore, i + 1) /\ handle'[p] = h /\ platform' = platform
  BY <1>2, Moved
<1>4. At(p, OpenStore, i + 1)' /\ i + 1 \in 1 .. 6
  BY <1>3, ReclaimStays DEF At
<1>5. OpenAt(p, i + 1)'
  BY <1>3, <1>4 DEF OpenAt
<1> QED
  BY <1>4, <1>5 DEF Placed

LEMMA BirthNext ==
    ASSUME PosixInv, NEW p \in Processes, NEW i \in 1 .. 9, BirthAt(p, i),
           NEW h, Alone(p, Tail(todo[p]), h),
           h.wal = Free,
           i = 3 => WholeIf(Stage("creating", p))',
           i = 6 => Locked(p)',
           i >= 7 => Owned(p)'
    PROVE  BirthAt(p, i + 1)' /\ Placed(p)'
<1>1. ~Windows
  BY PosixView
<1>2. Onward(p, BirthOpen(p), i)
  BY <1>1, PlacesOnward
<1>3. todo'[p] = From(BirthOpen(p), i + 1) /\ handle'[p] = h /\ platform' = platform
  BY <1>2, Moved
<1>4. At(p, BirthOpen(p), i + 1)' /\ i + 1 \in 1 .. 10
  BY <1>3, ReclaimStays DEF At
<1>5. BirthAt(p, i + 1)'
  BY <1>3, <1>4 DEF BirthAt
<1> QED
  BY <1>4, <1>5 DEF Placed

LEMMA LogNext ==
    ASSUME PosixInv, NEW p \in Processes, NEW i \in 1 .. 3, LogAt(p, i),
           NEW h, Alone(p, Tail(todo[p]), h),
           h.wal = Free,
           Owned(p)',
           Wal \in DOMAIN names',
           i = 1 => LogEmpty'
    PROVE  LogAt(p, i + 1)' /\ Placed(p)'
<1>1. ~Windows
  BY PosixView
<1>2. Onward(p, NewLog, i)
  BY <1>1, PlacesOnward
<1>3. todo'[p] = From(NewLog, i + 1) /\ handle'[p] = h /\ platform' = platform
  BY <1>2, Moved
<1>4. At(p, NewLog, i + 1)' /\ i + 1 \in 1 .. 4
  BY <1>3, ReclaimStays DEF At
<1>5. LogAt(p, i + 1)'
  BY <1>3, <1>4 DEF LogAt
<1> QED
  BY <1>4, <1>5 DEF Placed

LEMMA ReclaimNext ==
    ASSUME PosixInv, NEW p \in Processes, NEW i \in 1 .. 20, ReclaimAt(p, i),
           NEW h, Alone(p, Tail(todo[p]), h),
           h.wal = Free,
           i = 2 => Locked(p)',
           i \in 3 .. 17 => Owned(p)',
           i \in 18 .. 19 => Owns(p)',
           i \in 6 .. 17 => LogEmpty',
           i \in 15 .. 17 => Compacted',
           i = 17 => Staging \in DOMAIN names' /\ Holds(p, names[Staging])'
    PROVE  ReclaimAt(p, i + 1)' /\ Placed(p)'
<1>1. ~Windows
  BY PosixView
<1>2. Onward(p, Reclaim, i)
  BY <1>1, PlacesOnward
<1>3. todo'[p] = From(Reclaim, i + 1) /\ handle'[p] = h /\ platform' = platform
  BY <1>2, Moved
<1>4. At(p, Reclaim, i + 1)' /\ i + 1 \in 1 .. 21
  BY <1>3, ReclaimStays DEF At
<1>5. ReclaimAt(p, i + 1)'
  BY <1>3, <1>4 DEF ReclaimAt
<1> QED
  BY <1>4, <1>5 DEF Placed

LEMMA RestoreNext ==
    ASSUME PosixInv, NEW p \in Processes, NEW i \in 1 .. 6, RestoreAt(p, i),
           NEW h, Alone(p, Tail(todo[p]), h),
           h.wal = Free,
           i = 4 => WholeIf(Stage("restoring", p))'
    PROVE  RestoreAt(p, i + 1)' /\ Placed(p)'
<1>1. ~Windows
  BY PosixView
<1>2. Onward(p, RestoreFile(p), i)
  BY <1>1, PlacesOnward
<1>3. todo'[p] = From(RestoreFile(p), i + 1) /\ handle'[p] = h /\ platform' = platform
  BY <1>2, Moved
<1>4. At(p, RestoreFile(p), i + 1)' /\ i + 1 \in 1 .. 7
  BY <1>3, ReclaimStays DEF At
<1>5. RestoreAt(p, i + 1)'
  BY <1>3, <1>4 DEF RestoreAt
<1> QED
  BY <1>4, <1>5 DEF Placed

LEMMA BackupNext ==
    ASSUME PosixInv, NEW p \in Processes, NEW i \in 1 .. 7, BackupAt(p, i),
           NEW h, Alone(p, Tail(todo[p]), h),
           
           Writer(p)',
           i = 6 => WholeIf(Stage("backing-up", p))'
    PROVE  BackupAt(p, i + 1)' /\ Placed(p)'
<1>1. ~Windows
  BY PosixView
<1>2. Onward(p, Backup(p), i)
  BY <1>1, PlacesOnward
<1>3. todo'[p] = From(Backup(p), i + 1) /\ handle'[p] = h /\ platform' = platform
  BY <1>2, Moved
<1>4. At(p, Backup(p), i + 1)' /\ i + 1 \in 1 .. 8
  BY <1>3, ReclaimStays DEF At
<1>5. BackupAt(p, i + 1)'
  BY <1>3, <1>4 DEF BackupAt
<1> QED
  BY <1>4, <1>5 DEF Placed

LEMMA CloseNext ==
    ASSUME PosixInv, NEW p \in Processes, NEW i \in 1 .. 2, CloseAt(p, i),
           NEW h, Alone(p, Tail(todo[p]), h)
           
           
    PROVE  CloseAt(p, i + 1)' /\ Placed(p)'
<1>1. ~Windows
  BY PosixView
<1>2. Onward(p, Closing, i)
  BY <1>1, PlacesOnward
<1>3. todo'[p] = From(Closing, i + 1) /\ handle'[p] = h /\ platform' = platform
  BY <1>2, Moved
<1>4. At(p, Closing, i + 1)' /\ i + 1 \in 1 .. 3
  BY <1>3, ReclaimStays DEF At
<1>5. CloseAt(p, i + 1)'
  BY <1>3, <1>4 DEF CloseAt
<1> QED
  BY <1>4, <1>5 DEF Placed

\* The conditions of its place that a process keeps by a step that changes no name and no file.
LEMMA OwnKept ==
    ASSUME NEW p, UNCHANGED <<names, files>>,
           locked' = locked \/ \E f : Lockable(p, f) /\ locked' = Put(locked, f, p)
    PROVE  /\ \A f : Holds(p, f) => Holds(p, f)'
           /\ Owns(p) => Owns(p)'
           /\ Owned(p) /\ handle'[p].store = handle[p].store => Owned(p)'
           /\ Locked(p) /\ handle'[p].store = handle[p].store => Locked(p)'
           /\ LogEmpty => LogEmpty'
           /\ Compacted => Compacted'
           /\ \A n : WholeIf(n) => WholeIf(n)'
           /\ Writer(p) /\ handle'[p] = handle[p] => Writer(p)'
<1>1. \A f : Holds(p, f) => Holds(p, f)'
  <2>1. CASE locked' = locked
    BY <2>1 DEF Holds
  <2>2. ASSUME NEW f, locked' = Put(locked, f, p) PROVE \A g : Holds(p, g) => Holds(p, g)'
    BY <2>2 DEF Holds, Put
  <2> QED
    BY <2>1, <2>2
<1>2. Owns(p) => Owns(p)'
  BY <1>1 DEF Owns
<1>3. Owned(p) /\ handle'[p].store = handle[p].store => Owned(p)'
  BY <1>2 DEF Owned
<1>4. Locked(p) /\ handle'[p].store = handle[p].store => Locked(p)'
  BY <1>1 DEF Locked, Holds
<1>5. (LogEmpty => LogEmpty') /\ (Compacted => Compacted') /\ \A n : WholeIf(n) => WholeIf(n)'
  BY DEF LogEmpty, Compacted, WholeIf
<1>6. Writer(p) /\ handle'[p] = handle[p] => Writer(p)'
  BY <1>3 DEF Writer
<1> QED
  BY <1>1, <1>2, <1>3, <1>4, <1>5, <1>6

-----------------------------------------------------------------------------
(* The calls that only take files and locks. *)

LEMMA HandleIs ==
    ASSUME PosixInv, NEW p \in Processes
    PROVE  /\ handle[p] \in Handle
           /\ \A f \in DOMAIN files \cup {Free} :
                /\ [handle[p] EXCEPT !.store = f] \in Handle
                /\ [handle[p] EXCEPT !.other = f] \in Handle
                /\ [handle[p] EXCEPT !.wal = f] \in Handle
                /\ [handle[p] EXCEPT !.store = f].wal = handle[p].wal
                /\ [handle[p] EXCEPT !.other = f].wal = handle[p].wal
                /\ [handle[p] EXCEPT !.other = f].store = handle[p].store
                /\ [handle[p] EXCEPT !.wal = f].store = handle[p].store
                /\ [handle[p] EXCEPT !.wal = f].wal = f
           /\ \A n \in DOMAIN names : names[n] \in DOMAIN files
           /\ IsSeq(todo[p])
<1>1. handle[p] \in Handle /\ IsSeq(todo[p])
  BY DEF PosixInv, TypeOK, Handle, IsSeq
<1>2. \A n \in DOMAIN names : names[n] \in DOMAIN files
  BY DEF PosixInv, MapsInv, MapOK
<1>3. ASSUME NEW h \in Handle, NEW f \in DOMAIN files \cup {Free}
      PROVE  /\ [h EXCEPT !.store = f] \in Handle /\ [h EXCEPT !.other = f] \in Handle
             /\ [h EXCEPT !.wal = f] \in Handle
             /\ [h EXCEPT !.store = f].wal = h.wal /\ [h EXCEPT !.other = f].wal = h.wal
             /\ [h EXCEPT !.other = f].store = h.store /\ [h EXCEPT !.wal = f].store = h.store
             /\ [h EXCEPT !.wal = f].wal = f
  BY <1>3 DEF Handle
<1> QED
  BY <1>1, <1>2, <1>3

LEMMA CallsOnward ==
    ASSUME PosixInv, NEW p \in Processes, NEW c, Is(p, c)
    PROVE  IsSeq(Tail(todo[p]))
<1>1. IsSeq(todo[p]) /\ todo[p] # <<>>
  BY HandleIs DEF Is
<1> DEFINE t == todo[p]
           S == ToSet(t)
<1>2. t \in Seq(S) /\ t # <<>>
  BY <1>1 DEF IsSeq
<1> HIDE DEF t, S
<1>3. Tail(t) \in Seq(S)
  BY <1>2
<1> QED
  BY <1>3, SeqOver DEF t

LEMMA OpensKeep ==
    ASSUME PosixInv, NEW p \in Processes, Opens(p)
    PROVE  PosixInv'
<1> DEFINE n == Arg(p, 1)
           f == IF n \in DOMAIN names THEN names[n] ELSE Free
           h == [handle[p] EXCEPT !.store = f]
<1>1. Is(p, "open") /\ Handles(p, n \in DOMAIN names, h, locked)
  BY DEF Opens
<1>2. Placed(p) /\ ~Windows
  BY PosixView DEF PosixInv
<1>3. h \in Handle /\ h.wal = handle[p].wal
  <2>1. f \in DOMAIN files \cup {Free}
    BY HandleIs
  <2> HIDE DEF f
  <2> QED
    BY <2>1, HandleIs
<1>4. OpenAt(p, 1) \/ BirthAt(p, 2) \/ ReclaimAt(p, 1)
  BY <1>1, <1>2, Callers
<1> HIDE DEF h, f, n
<1>5. ASSUME Alone(p, Tail(todo[p]), h) PROVE Placed(p)'
  <2>1. CASE OpenAt(p, 1)
    BY <1>3, <1>5, <2>1, OpenNext DEF OpenAt
  <2>2. CASE BirthAt(p, 2)
    BY <1>3, <1>5, <2>2, BirthNext DEF BirthAt
  <2>3. CASE ReclaimAt(p, 1)
    BY <1>3, <1>5, <2>3, ReclaimNext DEF ReclaimAt
  <2> QED
    BY <1>4, <2>1, <2>2, <2>3
<1> QED
  BY <1>1, <1>3, <1>5, CallsOnward, HandlesKeeps

LEMMA LocksKeep ==
    ASSUME PosixInv, NEW p \in Processes, Locks(p)
    PROVE  PosixInv'
<1> DEFINE f == handle[p].store
<1>1. Is(p, "lock") /\ Handles(p, Lockable(p, f), handle[p], Put(locked, f, p))
  BY DEF Locks
<1>2. Placed(p) /\ ~Windows
  BY PosixView DEF PosixInv
<1>3. handle[p] \in Handle
  BY HandleIs
<1>4. OpenAt(p, 2) \/ BirthAt(p, 6) \/ ReclaimAt(p, 2)
  BY <1>1, <1>2, Callers
<1>5. ASSUME Alone(p, Tail(todo[p]), handle[p]), locked' = Put(locked, f, p) PROVE Placed(p)'
  <2>1. Locked(p)'
    <3>1. handle'[p] = handle[p]
      BY <1>5, AloneIs
    <3>2. f \in DOMAIN locked' /\ locked'[f] = p
      BY <1>5 DEF Put
    <3> QED
      BY <3>1, <3>2 DEF Locked, Holds
  <2>2. CASE OpenAt(p, 2)
    BY <1>3, <1>5, <2>1, <2>2, OpenNext DEF OpenAt
  <2>3. CASE BirthAt(p, 6)
    BY <1>3, <1>5, <2>1, <2>3, BirthNext DEF BirthAt
  <2>4. CASE ReclaimAt(p, 2)
    BY <1>3, <1>5, <2>1, <2>4, ReclaimNext DEF ReclaimAt
  <2> QED
    BY <1>4, <2>2, <2>3, <2>4
<1> HIDE DEF f
<1> QED
  BY <1>1, <1>3, <1>5, CallsOnward, HandlesKeeps

LEMMA AsksNameKeeps ==
    ASSUME PosixInv, NEW p \in Processes, AsksName(p)
    PROVE  PosixInv'
<1>1. Is(p, "same") /\ Handles(p, IsCurrent(p, Arg(p, 1)), handle[p], locked)
  BY DEF AsksName
<1>2. Placed(p) /\ ~Windows
  BY PosixView DEF PosixInv
<1>3. handle[p] \in Handle
  BY HandleIs
<1>4. OpenAt(p, 3) \/ BirthAt(p, 7) \/ ReclaimAt(p, 3) \/ ReclaimAt(p, 5)
  BY <1>1, <1>2, Callers
<1>5. Arg(p, 1) = Store
  <2>1. /\ OpenStore[3][2] = Store /\ BirthOpen(p)[7][2] = Store
        /\ Reclaim[3][2] = Store /\ Reclaim[5][2] = Store
    BY <1>2, OpenStoreIs, BirthOpenIs, ReclaimIs
  <2>2. \/ Head(todo[p]) = OpenStore[3] \/ Head(todo[p]) = BirthOpen(p)[7]
        \/ Head(todo[p]) = Reclaim[3] \/ Head(todo[p]) = Reclaim[5]
    BY <1>2, <1>4, PlacesOnward DEF Onward
  <2> QED
    BY <2>1, <2>2 DEF Arg
<1>6. ASSUME Alone(p, Tail(todo[p]), handle[p]), IsCurrent(p, Arg(p, 1)),
             UNCHANGED <<names, disk, files>>, locked' = locked
      PROVE  Placed(p)'
  <2>1. Store \in DOMAIN names /\ names[Store] = handle[p].store
    <3>1. Store # Anchor
      BY NamesApart DEF Public
    <3> QED
      BY <1>5, <1>6, <3>1 DEF IsCurrent
  <2>2. handle'[p] = handle[p]
    BY <1>6, AloneIs
  <2>3. Locked(p) \/ Owned(p) => Owned(p)'
    BY <1>6, <2>1, <2>2 DEF Locked, Owned, Owns, Holds
  <2>4. CASE OpenAt(p, 3)
    BY <1>3, <1>6, <2>3, <2>4, OpenNext DEF OpenAt
  <2>5. CASE BirthAt(p, 7)
    BY <1>3, <1>6, <2>3, <2>5, BirthNext DEF BirthAt
  <2>6. CASE ReclaimAt(p, 3)
    BY <1>3, <1>6, <2>3, <2>6, ReclaimNext DEF ReclaimAt
  <2>7. CASE ReclaimAt(p, 5)
    BY <1>3, <1>6, <2>3, <2>7, ReclaimNext DEF ReclaimAt
  <2> QED
    BY <1>4, <2>4, <2>5, <2>6, <2>7
<1> QED
  BY <1>1, <1>3, <1>6, CallsOnward, HandlesKeeps

LEMMA LocksOtherKeeps ==
    ASSUME PosixInv, NEW p \in Processes, LocksOther(p)
    PROVE  PosixInv'
<1> DEFINE n == Arg(p, 1)
           f == IF Exists(p, n) THEN View(p)[n] ELSE Free
           h == [handle[p] EXCEPT !.other = f]
<1>1. Placed(p) /\ ~Windows
  BY PosixView DEF PosixInv
<1>2. Is(p, "lockother") /\ Handles(p, f # Free /\ Lockable(p, f), h, Put(locked, f, p))
  <2>1. ~Is(p, "lockanchor")
    BY <1>1, Callers
  <2> QED
    BY <2>1 DEF LocksOther
<1>3. ReclaimAt(p, 17)
  BY <1>1, <1>2, Callers
<1>4. n = Staging
  <2>1. Head(todo[p]) = Reclaim[17] /\ Reclaim[17] = <<"lockother", Staging>>
    BY <1>1, <1>3, PlacesOnward, ReclaimIs DEF Onward
  <2> QED
    BY <2>1 DEF Arg
<1>5. f = (IF Staging \in DOMAIN names THEN names[Staging] ELSE Free)
  BY <1>4, PosixView
<1>6. /\ f \in DOMAIN files \cup {Free}
      /\ h \in Handle /\ h.wal = handle[p].wal /\ h.store = handle[p].store
  <2>1. f \in DOMAIN files \cup {Free}
    BY <1>5, HandleIs
  <2> HIDE DEF f
  <2> QED
    BY <2>1, HandleIs
<1> HIDE DEF f, h, n
<1>7. ASSUME Alone(p, Tail(todo[p]), h), f # Free /\ Lockable(p, f),
             UNCHANGED <<names, disk, files>>, locked' = Put(locked, f, p)
      PROVE  Placed(p)'
  <2>1. Staging \in DOMAIN names /\ f = names[Staging]
    BY <1>5, <1>7
  <2>2. f \in DOMAIN locked' /\ locked'[f] = p
    BY <1>7 DEF Put
  <2>3. handle'[p] = h
    BY <1>7, AloneIs
  <2>4. /\ Owned(p) => Owned(p)'
        /\ LogEmpty => LogEmpty'
        /\ Compacted => Compacted'
    BY <1>6, <1>7, <2>3, OwnKept
  <2>5. Staging \in DOMAIN names' /\ Holds(p, names[Staging])'
    BY <1>7, <2>1, <2>2 DEF Holds
  <2> QED
    BY <1>3, <1>6, <1>7, <2>4, <2>5, ReclaimNext DEF ReclaimAt
<1> QED
  BY <1>2, <1>6, <1>7, CallsOnward, HandlesKeeps

\* The usual case: neither handle nor locks change.
LEMMA AsksKeep ==
    ASSUME PosixInv, NEW p \in Processes, NEW c, Is(p, c), c \notin {"sync", "birth"},
           NEW allowed, Handles(p, allowed, handle[p], locked),
           allowed /\ Alone(p, Tail(todo[p]), handle[p]) /\ handle'[p] = handle[p]
             /\ UNCHANGED <<names, disk, files>>
             /\ (Owns(p) => Owns(p)') /\ (Owned(p) => Owned(p)') /\ (Locked(p) => Locked(p)')
             /\ (LogEmpty => LogEmpty') /\ (Compacted => Compacted')
             /\ (\A n : WholeIf(n) => WholeIf(n)') /\ (Writer(p) => Writer(p)')
           => Placed(p)'
    PROVE  PosixInv'
<1>1. handle[p] \in Handle
  BY HandleIs
<1>2. ASSUME allowed, Alone(p, Tail(todo[p]), handle[p]), UNCHANGED <<names, disk, files>>, locked' = locked
      PROVE  Placed(p)'
  <2>1. handle'[p] = handle[p]
    BY <1>2, AloneIs
  <2>2. /\ (Owns(p) => Owns(p)') /\ (Owned(p) => Owned(p)') /\ (Locked(p) => Locked(p)')
        /\ (LogEmpty => LogEmpty') /\ (Compacted => Compacted')
        /\ (\A n : WholeIf(n) => WholeIf(n)') /\ (Writer(p) => Writer(p)')
    BY <1>2, <2>1, OwnKept
  <2> QED
    BY <1>2, <2>1, <2>2
<1> QED
  BY <1>1, <1>2, CallsOnward, HandlesKeeps

LEMMA VerifiesKeeps ==
    ASSUME PosixInv, NEW p \in Processes, Verifies(p)
    PROVE  PosixInv'
<1> DEFINE n == Arg(p, 1)
           ok == Exists(p, n) /\ files[View(p)[n]].whole
<1>1. Is(p, "verify") /\ Handles(p, ok, handle[p], locked)
  BY DEF Verifies
<1>2. Placed(p) /\ ~Windows /\ View(p) = names /\ (Exists(p, n) <=> n \in DOMAIN names)
  BY PosixView DEF PosixInv
<1>3. \/ OpenAt(p, 4) \/ BirthAt(p, 8) \/ ReclaimAt(p, 4) \/ ReclaimAt(p, 16) \/ ReclaimAt(p, 20)
      \/ RestoreAt(p, 4) \/ BackupAt(p, 6)
  BY <1>1, <1>2, Callers
<1>4. /\ RestoreAt(p, 4) => n = Stage("restoring", p)
      /\ BackupAt(p, 6) => n = Stage("backing-up", p)
  <2>1. /\ RestoreAt(p, 4) => Head(todo[p]) = RestoreFile(p)[4]
        /\ BackupAt(p, 6) => Head(todo[p]) = Backup(p)[6]
    BY <1>2, PlacesOnward DEF Onward
  <2> QED
    BY <2>1, RestoreIs, BackupIs DEF Arg
<1>5. ok => WholeIf(n)
  BY <1>2 DEF WholeIf
<1> HIDE DEF ok, n
<1>6. ASSUME ok, Alone(p, Tail(todo[p]), handle[p]), handle'[p] = handle[p], UNCHANGED <<names, disk, files>>,
             Owns(p) => Owns(p)', Owned(p) => Owned(p)', LogEmpty => LogEmpty', Compacted => Compacted',
             \A m : WholeIf(m) => WholeIf(m)', Writer(p) => Writer(p)'
      PROVE  Placed(p)'
  <2>1. CASE OpenAt(p, 4)
    BY <1>6, <2>1, OpenNext DEF OpenAt
  <2>2. CASE BirthAt(p, 8)
    BY <1>6, <2>2, BirthNext DEF BirthAt
  <2>3. CASE ReclaimAt(p, 4)
    BY <1>6, <2>3, ReclaimNext DEF ReclaimAt
  <2>4. CASE ReclaimAt(p, 16)
    BY <1>6, <2>4, ReclaimNext DEF ReclaimAt
  <2>5. CASE ReclaimAt(p, 20)
    BY <1>6, <2>5, ReclaimNext DEF ReclaimAt
  <2>6. CASE RestoreAt(p, 4)
    BY <1>4, <1>5, <1>6, <2>6, RestoreNext DEF RestoreAt
  <2>7. CASE BackupAt(p, 6)
    BY <1>4, <1>5, <1>6, <2>7, BackupNext DEF BackupAt
  <2> QED
    BY <1>3, <2>1, <2>2, <2>3, <2>4, <2>5, <2>6, <2>7
<1> QED
  BY <1>1, <1>6, AsksKeep

LEMMA AsksLogKeeps ==
    ASSUME PosixInv, NEW p \in Processes, AsksLog(p)
    PROVE  PosixInv'
<1>1. Is(p, "nolog") /\ Handles(p, LogEmpty, handle[p], locked)
  BY DEF AsksLog, LogEmpty
<1>2. Placed(p) /\ ~Windows
  BY PosixView DEF PosixInv
<1>3. ReclaimAt(p, 6)
  BY <1>1, <1>2, Callers
<1>4. ASSUME LogEmpty, Alone(p, Tail(todo[p]), handle[p]), handle'[p] = handle[p],
             Owned(p) => Owned(p)', LogEmpty => LogEmpty'
      PROVE  Placed(p)'
  BY <1>3, <1>4, ReclaimNext DEF ReclaimAt
<1> QED
  BY <1>1, <1>4, AsksKeep

LEMMA AsksFreeKeeps ==
    ASSUME PosixInv, NEW p \in Processes, AsksFree(p)
    PROVE  PosixInv'
<1>1. Is(p, "free")
  BY DEF AsksFree
<1>2. Placed(p) /\ ~Windows
  BY PosixView DEF PosixInv
<1>3. ReclaimAt(p, 7)
  BY <1>1, <1>2, Callers
<1>4. CASE Handles(p, TRUE, handle[p], locked)
  <2>1. ASSUME Alone(p, Tail(todo[p]), handle[p]), handle'[p] = handle[p],
               Owned(p) => Owned(p)', LogEmpty => LogEmpty'
        PROVE  Placed(p)'
    BY <1>3, <2>1, ReclaimNext DEF ReclaimAt
  <2> QED
    BY <1>1, <1>4, <2>1, AsksKeep
<1>5. CASE Goes(p, <<<<"done">>>>) /\ UNCHANGED <<platform, space, locked, handle, history>>
  <2> DEFINE t == <<<<"done">>>> \o Tail(todo[p])
  <2>1. IsSeq(t) /\ Len(t) = 1 + Len(Tail(todo[p])) /\ Len(Tail(todo[p])) \in Nat /\ t[1] = <<"done">>
    <3> DEFINE d == <<<<"done">>>>
               r == Tail(todo[p])
    <3>1. IsSeq(d) /\ IsSeq(r) /\ Len(d) = 1 /\ d[1] = <<"done">>
      BY <1>1, CallsOnward, Literals
    <3> HIDE DEF d, r
    <3>2. /\ IsSeq(d \o r) /\ Len(d \o r) = Len(d) + Len(r) /\ Len(r) \in Nat
          /\ \A i \in 1 .. Len(d) : (d \o r)[i] = d[i]
      BY <3>1, Joined
    <3> QED
      BY <3>1, <3>2 DEF d, r
  <2>2. todo' = [todo EXCEPT ![p] = t]
    BY <1>5 DEF Goes
  <2> HIDE DEF t
  <2>3. handle' = [handle EXCEPT ![p] = handle[p]]
    BY <1>5 DEF PosixInv, TypeOK
  <2>4. Alone(p, t, handle[p])
    BY <1>5, <2>2, <2>3 DEF Alone, space
  <2>5. todo'[p] = t
    BY <2>4, AloneIs
  <2>6. Placed(p)'
    <3>1. t # <<>> /\ Head(t) = <<"done">>
      BY <2>1
    <3> QED
      BY <2>5, <3>1 DEF Placed, Is
  <2>7. ~Is(p, "sync") /\ ~Unsynced(p)
    BY <1>1, NotUnsynced
  <2> QED
    BY <1>5, <2>1, <2>4, <2>6, <2>7, HandleIs, QuietKeeps DEF space, history
<1> QED
  BY <1>4, <1>5 DEF AsksFree

LEMMA AsksVacantKeeps ==
    ASSUME PosixInv, NEW p \in Processes, AsksVacant(p)
    PROVE  PosixInv'
<1> DEFINE ok == Arg(p, 1) \notin DOMAIN names
<1>1. Is(p, "vacant") /\ Handles(p, ok, handle[p], locked)
  BY DEF AsksVacant
<1>2. Placed(p) /\ ~Windows
  BY PosixView DEF PosixInv
<1>3. RestoreAt(p, 1) \/ BackupAt(p, 1)
  BY <1>1, <1>2, Callers
<1> HIDE DEF ok
<1>4. ASSUME Alone(p, Tail(todo[p]), handle[p]), handle'[p] = handle[p], Writer(p) => Writer(p)'
      PROVE  Placed(p)'
  <2>1. CASE RestoreAt(p, 1)
    BY <1>4, <2>1, RestoreNext DEF RestoreAt
  <2>2. CASE BackupAt(p, 1)
    BY <1>4, <2>2, BackupNext DEF BackupAt
  <2> QED
    BY <1>3, <2>1, <2>2
<1> QED
  BY <1>1, <1>4, AsksKeep

LEMMA HoldsLogKeeps ==
    ASSUME PosixInv, NEW p \in Processes, HoldsLog(p)
    PROVE  PosixInv'
<1> DEFINE f == View(p)[Wal]
           h == [handle[p] EXCEPT !.wal = f]
<1>1. Is(p, "log") /\ Handles(p, TRUE, h, locked)
  BY DEF HoldsLog
<1>2. Placed(p) /\ ~Windows /\ View(p) = names
  BY PosixView DEF PosixInv
<1>3. LogAt(p, 4)
  BY <1>1, <1>2, Callers
<1>4. Owned(p) /\ Wal \in DOMAIN names /\ f = names[Wal]
  BY <1>2, <1>3 DEF LogAt
<1>5. h \in Handle /\ h.wal = names[Wal] /\ h.store = handle[p].store
  <2>1. f \in DOMAIN files \cup {Free}
    BY <1>4, HandleIs
  <2>2. f = names[Wal]
    BY <1>4
  <2> HIDE DEF f
  <2> QED
    BY <2>1, <2>2, HandleIs
<1> HIDE DEF f, h
<1>6. ASSUME Alone(p, Tail(todo[p]), h), UNCHANGED <<names, disk, files>>, locked' = locked
      PROVE  Placed(p)'
  <2>1. handle'[p] = h /\ todo'[p] = Tail(todo[p])
    BY <1>6, AloneIs
  <2>2. Tail(todo[p]) = <<>>
    <3>1. Tail(todo[p]) = From(NewLog, 5)
      BY <1>2, <1>3, PlacesOnward DEF Onward
    <3>2. From(NewLog, 5) = <<>>
      <4>1. IsSeq(NewLog) /\ Len(NewLog) = 4 /\ 1 \in 1 .. Len(NewLog)
        BY NewLogIs
      <4>2. From(NewLog, Len(NewLog) + 1) = <<>>
        BY <4>1, NextCall
      <4> QED
        BY <4>1, <4>2
    <3> QED
      BY <3>1, <3>2
  <2>3. Owned(p)'
    BY <1>4, <1>5, <1>6, <2>1, OwnKept
  <2>4. Writer(p)' /\ todo'[p] = <<>>
    BY <1>4, <1>5, <1>6, <2>1, <2>2, <2>3 DEF Writer
  <2> QED
    BY <2>4 DEF Placed
<1> QED
  BY <1>1, <1>5, <1>6, CallsOnward, HandlesKeeps

LEMMA DoneKeeps ==
    ASSUME PosixInv, NEW p \in Processes, Done(p)
    PROVE  PosixInv'
<1>1. ~Is(p, "sync") /\ ~Unsynced(p)
  BY NotUnsynced DEF Done
<1>2. Refused(p)
  <2>1. pending' = [pending EXCEPT ![p] = <<>>]
    BY DEF Done, space, PosixInv, TypeOK
  <2> QED
    BY <2>1 DEF Done, Refused, space, history
<1> QED
  BY <1>1, <1>2, RefusedKeeps

LEMMA LastCall ==
    ASSUME NEW s, IsSeq(s), Len(s) # 0
    PROVE  From(s, Len(s)) = <<s[Len(s)]>>
<1> DEFINE n == Len(s)
           S == ToSet(s)
<1>1. s \in Seq(S) /\ n \in Nat \ {0} /\ \A i \in 1 .. n : s[i] \in S
  BY DEF IsSeq, ToSet
<1> HIDE DEF S
<1>2. SubSeq(s, n, n) = <<s[n]>>
  <2>1. n \in 1 .. n + 1 /\ n \in 1 .. Len(s) /\ n - n + 1 = 1
    BY <1>1
  <2>2. /\ SubSeq(s, n, n) \in Seq(S) /\ Len(SubSeq(s, n, n)) = 1
        /\ \A i \in 1 .. 1 : SubSeq(s, n, n)[i] = s[n + i - 1]
    <3>1. /\ SubSeq(s, n, n) \in Seq(S)
          /\ Len(SubSeq(s, n, n)) = IF n <= n THEN n - n + 1 ELSE 0
          /\ \A i \in 1 .. n - n + 1 : SubSeq(s, n, n)[i] = s[n + i - 1]
      BY <1>1, <2>1, SubSeqProperties
    <3> QED
      BY <1>1, <3>1
  <2>3. SubSeq(s, n, n)[1] = s[n]
    BY <1>1, <2>2
  <2>4. <<s[n]>> \in Seq(S) /\ Len(<<s[n]>>) = 1 /\ <<s[n]>>[1] = s[n]
    BY <1>1
  <2>5. \A i \in 1 .. 1 : SubSeq(s, n, n)[i] = <<s[n]>>[i]
    BY <2>3, <2>4
  <2> QED
    BY <2>2, <2>4, <2>5, SeqEqual
<1> QED
  BY <1>2 DEF From

LEMMA LastOpening ==
    ASSUME ~Windows, NEW p
    PROVE  /\ From(OpenStore, 6) = <<<<"wal">>>> /\ From(BirthOpen(p), 10) = <<<<"wal">>>>
           /\ From(OpenStore, 7) = <<>> /\ From(BirthOpen(p), 11) = <<>>
           /\ From(NewLog, 4) = <<<<"log">>>> /\ From(NewLog, 1) = NewLog
<1>1. From(OpenStore, 6) = <<<<"wal">>>> /\ From(BirthOpen(p), 10) = <<<<"wal">>>> /\ From(NewLog, 4) = <<<<"log">>>>
  <2>1. /\ From(OpenStore, Len(OpenStore)) = <<OpenStore[Len(OpenStore)]>>
        /\ From(BirthOpen(p), Len(BirthOpen(p))) = <<BirthOpen(p)[Len(BirthOpen(p))]>>
        /\ From(NewLog, Len(NewLog)) = <<NewLog[Len(NewLog)]>>
    BY Lengths, LastCall
  <2> QED
    BY <2>1, OpenStoreIs, BirthOpenIs, NewLogIs
<1>2. From(OpenStore, 7) = <<>> /\ From(BirthOpen(p), 11) = <<>> /\ From(NewLog, 1) = NewLog
  <2>1. /\ IsSeq(OpenStore) /\ 1 \in 1 .. Len(OpenStore) /\ IsSeq(BirthOpen(p)) /\ 1 \in 1 .. Len(BirthOpen(p))
        /\ IsSeq(NewLog) /\ 1 \in 1 .. Len(NewLog)
    BY Lengths
  <2>2. /\ From(OpenStore, Len(OpenStore) + 1) = <<>> /\ From(BirthOpen(p), Len(BirthOpen(p)) + 1) = <<>>
        /\ From(NewLog, 1) = NewLog
    BY <2>1, NextCall
  <2>3. Len(OpenStore) + 1 = 7 /\ Len(BirthOpen(p)) + 1 = 11
    <3>1. Len(OpenStore) = 6 /\ Len(BirthOpen(p)) = 10
      BY Lengths
    <3> QED
      BY <3>1
  <2> QED
    BY <2>2, <2>3
<1> QED
  BY <1>1, <1>2

LEMMA FoundIs ==
    ASSUME PosixInv
    PROVE  LET found == SetToSeq(Debris(names))
               n == Cardinality(Debris(names))
           IN  found \in [1 .. n -> Debris(names)] /\ n \in Nat /\ DOMAIN found = 1 .. n
<1> DEFINE D == Debris(names)
<1>1. IsFiniteSet(D)
  <2>1. D \subseteq DOMAIN names /\ DOMAIN names \subseteq PosixNames
    BY DEF Debris, PosixInv, MapsInv, MapOK
  <2> QED
    BY <2>1, PosixNamesFinite, FS_Subset
<1> HIDE DEF D
<1>2. Cardinality(D) \in Nat /\ ExistsBijection(1 .. Cardinality(D), D)
  BY <1>1, FS_CardinalityType
<1>3. PICK f \in [1 .. Cardinality(D) -> D] : IsInjective(f)
  <2>1. PICK f : f \in Bijection(1 .. Cardinality(D), D)
    BY <1>2 DEF ExistsBijection
  <2>2. f \in [1 .. Cardinality(D) -> D] /\ IsInjective(f)
    BY <2>1 DEF Bijection, Injection, IsInjective
  <2> QED
    BY <2>2
<1>4. SetToSeq(D) \in [1 .. Cardinality(D) -> D]
  BY <1>3 DEF SetToSeq
<1> QED
  BY <1>2, <1>4 DEF D

\* The calls of a process become others, and nothing else changes.
LEMMA GoesKeeps ==
    ASSUME PosixInv, NEW p \in Processes, NEW t, IsSeq(t), todo' = [todo EXCEPT ![p] = t],
           UNCHANGED <<platform, space, locked, handle, acked, promised, unsettled>>,
           ~Is(p, "sync"), ~Unsynced(p),
           Alone(p, t, handle[p]) /\ todo'[p] = t /\ handle'[p] = handle[p] /\ (Owned(p) => Owned(p)')
             /\ (Writer(p) => Writer(p)') => Placed(p)'
    PROVE  PosixInv'
<1>1. handle' = [handle EXCEPT ![p] = handle[p]]
  BY DEF PosixInv, TypeOK
<1>2. Alone(p, t, handle[p])
  BY <1>1 DEF Alone, space
<1>3. todo'[p] = t /\ handle'[p] = handle[p]
  BY <1>2, AloneIs
<1>4. (Owned(p) => Owned(p)') /\ (Writer(p) => Writer(p)')
  BY <1>3, OwnKept DEF space
<1>5. Placed(p)'
  BY <1>2, <1>3, <1>4
<1> QED
  BY <1>2, <1>5, HandleIs, QuietKeeps DEF space

LEMMA SweepsKeep ==
    ASSUME PosixInv, NEW p \in Processes, Sweeps(p)
    PROVE  PosixInv'
<1> DEFINE found == SetToSeq(Debris(names))
           n == Cardinality(Debris(names))
           U == [i \in DOMAIN found |-> <<"unlink", found[i]>>]
           B == IF found = <<>> THEN <<>> ELSE <<<<"sync">>>>
           w == <<<<"wal">>>>
           t == (U \o B) \o w
<1>1. Placed(p) /\ ~Windows
  BY PosixView DEF PosixInv
<1>2. /\ Is(p, "sweep") /\ todo' = [todo EXCEPT ![p] = (U \o B) \o Tail(@)]
      /\ UNCHANGED <<platform, space, locked, handle, acked, promised, unsettled>>
  BY DEF Sweeps, Names, Goes, history
<1>3. OpenAt(p, 5) \/ BirthAt(p, 9)
  BY <1>1, <1>2, Callers
<1>4. Tail(todo[p]) = w
  <2>1. Onward(p, OpenStore, 5) \/ Onward(p, BirthOpen(p), 9)
    BY <1>1, <1>3, PlacesOnward
  <2>2. Tail(todo[p]) = From(OpenStore, 6) \/ Tail(todo[p]) = From(BirthOpen(p), 10)
    BY <2>1 DEF Onward
  <2> QED
    BY <1>1, <2>2, LastOpening
<1>5. found \in [1 .. n -> Debris(names)] /\ n \in Nat /\ DOMAIN found = 1 .. n
  BY FoundIs
<1>6. todo' = [todo EXCEPT ![p] = t]
  <2> HIDE DEF U, B, w
  <2> QED
    BY <1>2, <1>4
<1>7. Owned(p) /\ handle[p].wal = Free
  BY <1>3 DEF OpenAt, BirthAt
<1>8. ~Is(p, "sync") /\ ~Unsynced(p)
  BY <1>2, NotUnsynced
<1>9. CASE n = 0
  <2>1. found = <<>>
    BY <1>5, <1>9
  <2>2. U = <<>> /\ B = <<>>
    BY <2>1
  <2>3. t = w
    BY <2>2
  <2>4. IsSeq(t)
    BY <2>3, Literals
  <2> HIDE DEF t, w
  <2>5. ASSUME todo'[p] = t, handle'[p] = handle[p], Owned(p)' PROVE Placed(p)'
    <3>1. At(p, OpenStore, 6)'
      BY <2>3, <2>5, <1>1, LastOpening DEF At, w
    <3>2. OpenAt(p, 6)'
      BY <3>1, <2>5, <1>7 DEF OpenAt
    <3> QED
      BY <3>2 DEF Placed
  <2> QED
    BY <1>2, <1>6, <1>7, <1>8, <2>4, <2>5, GoesKeeps
<1>10. CASE n # 0
  <2>1. found # <<>>
    BY <1>5, <1>10
  <2>2. U \in Seq({<<"unlink", d>> : d \in Debris(names)}) /\ Len(U) = n /\ B = <<<<"sync">>>>
    <3>1. U \in [1 .. n -> {<<"unlink", d>> : d \in Debris(names)}]
      BY <1>5
    <3>2. B = <<<<"sync">>>>
      BY <2>1
    <3> HIDE DEF U, B
    <3>3. U \in Seq({<<"unlink", d>> : d \in Debris(names)}) /\ Len(U) = n
      BY <1>5, <3>1
    <3> QED
      BY <3>2, <3>3
  <2>3. \A i \in 1 .. n : U[i] = <<"unlink", found[i]>> /\ found[i] \in Transient \cup {Anchor}
    BY <1>5 DEF Debris
  <2>4. IsSeq(U) /\ IsSeq(B) /\ Len(B) = 1 /\ B[1] = <<"sync">> /\ IsSeq(w) /\ Len(w) = 1 /\ w[1] = <<"wal">>
    BY <2>2, SeqOver, Literals
  <2> HIDE DEF U, B, w
  <2>5. /\ IsSeq(U \o B) /\ Len(U \o B) = n + 1
        /\ \A i \in 1 .. n : (U \o B)[i] = U[i]
        /\ (U \o B)[n + 1] = <<"sync">>
    <3>1. /\ IsSeq(U \o B) /\ Len(U \o B) = Len(U) + Len(B)
          /\ \A i \in 1 .. Len(U) : (U \o B)[i] = U[i]
          /\ \A i \in 1 .. Len(B) : (U \o B)[Len(U) + i] = B[i]
      <4>1. IsSeq(U) /\ IsSeq(B)
        BY <2>4
      <4>2. /\ IsSeq(U \o B) /\ Len(U \o B) = Len(U) + Len(B)
        BY <4>1, Joined
      <4>3. /\ \A i \in 1 .. Len(U) : (U \o B)[i] = U[i]
        BY <4>1, Joined
      <4>4. /\ \A i \in 1 .. Len(B) : (U \o B)[Len(U) + i] = B[i]
        BY <4>1, Joined
      <4> QED
        BY <4>2, <4>3, <4>4
    <3> QED
      BY <1>5, <2>2, <2>4, <3>1
  <2>6. /\ IsSeq(t) /\ Len(t) = n + 2
        /\ \A i \in 1 .. n : t[i] = U[i]
        /\ t[n + 1] = <<"sync">> /\ t[n + 2] = <<"wal">>
    <3> DEFINE v == U \o B
    <3> HIDE DEF v
    <3>1. IsSeq(v) /\ IsSeq(w)
      BY <2>4, <2>5 DEF v
    <3>2. /\ IsSeq(v \o w) /\ Len(v \o w) = Len(v) + Len(w)
          /\ \A i \in 1 .. Len(v) : (v \o w)[i] = v[i]
          /\ \A i \in 1 .. Len(w) : (v \o w)[Len(v) + i] = w[i]
      BY <3>1, Joined
    <3>3. t = v \o w
      BY DEF v
    <3>4. Len(v) = n + 1 /\ (\A i \in 1 .. n : v[i] = U[i]) /\ v[n + 1] = <<"sync">>
      BY <2>5 DEF v
    <3> HIDE DEF t
    <3>5. /\ IsSeq(t) /\ Len(t) = Len(v) + Len(w)
          /\ \A i \in 1 .. Len(v) : t[i] = v[i]
          /\ \A i \in 1 .. Len(w) : t[Len(v) + i] = w[i]
      BY <3>2, <3>3
    <3> QED
      BY <1>5, <2>4, <3>4, <3>5
  <2> HIDE DEF t
  <2>7. ASSUME todo'[p] = t, handle'[p] = handle[p], Owned(p)' PROVE Placed(p)'
    <3>1. /\ Len(t) >= 2 /\ t[Len(t)] = <<"wal">> /\ t[Len(t) - 1] = <<"sync">>
          /\ \A i \in 1 .. Len(t) - 2 : \E m \in Transient \cup {Anchor} : t[i] = <<"unlink", m>>
      <4>1. Len(t) - 1 = n + 1 /\ Len(t) - 2 = n /\ Len(t) >= 2
        BY <1>5, <2>6
      <4> QED
        BY <2>3, <2>6, <4>1
    <3>2. Sweeping(p)'
      BY <1>7, <2>7, <3>1 DEF Sweeping
    <3> QED
      BY <3>2 DEF Placed
  <2> QED
    BY <1>2, <1>6, <1>7, <1>8, <2>6, <2>7, GoesKeeps
<1> QED
  BY <1>9, <1>10

LEMMA OpensWalKeeps ==
    ASSUME PosixInv, NEW p \in Processes, OpensWal(p)
    PROVE  PosixInv'
<1> DEFINE t == IF Wal \in DOMAIN names THEN From(NewLog, 4) ELSE From(NewLog, 1)
<1>1. Placed(p) /\ ~Windows /\ (Exists(p, Wal) <=> Wal \in DOMAIN names)
  BY PosixView DEF PosixInv
<1>2. /\ Is(p, "wal") /\ todo' = [todo EXCEPT ![p] = Opened(p) \o Tail(@)]
      /\ UNCHANGED <<platform, space, locked, handle, acked, promised, unsettled>>
  BY DEF OpensWal, Names, Goes, history
<1>3. OpenAt(p, 6) \/ BirthAt(p, 10)
  BY <1>1, <1>2, Callers
<1>4. Tail(todo[p]) = <<>>
  <2>1. (OpenAt(p, 6) => Onward(p, OpenStore, 6)) /\ (BirthAt(p, 10) => Onward(p, BirthOpen(p), 10))
    BY <1>1, PlacesOnward
  <2>2. From(OpenStore, 7) = <<>> /\ From(BirthOpen(p), 11) = <<>>
    BY <1>1, LastOpening
  <2> QED
    BY <1>3, <2>1, <2>2 DEF Onward
<1>5. Opened(p) = t /\ IsSeq(t)
  <2>1. IsSeq(<<<<"log">>>>) /\ IsSeq(NewLog)
    BY Literals, NewLogIs
  <2> QED
    BY <1>1, <2>1, LastOpening DEF Opened, NewLog
<1>6. todo' = [todo EXCEPT ![p] = t]
  <2>1. Opened(p) \o <<>> = t
    BY <1>5, ConcatEmptySeq DEF IsSeq
  <2> QED
    BY <1>2, <1>4, <2>1
<1>7. Owned(p) /\ handle[p].wal = Free
  BY <1>3 DEF OpenAt, BirthAt
<1>8. ~Is(p, "sync") /\ ~Unsynced(p)
  BY <1>2, NotUnsynced
<1>9. ASSUME todo'[p] = t, handle'[p] = handle[p], Owned(p)' PROVE Placed(p)'
  <2>1. names' = names
    BY <1>2 DEF space
  <2>2. CASE Wal \in DOMAIN names
    <3>1. LogAt(p, 4)'
      BY <1>7, <1>9, <2>1, <2>2 DEF LogAt, At
    <3> QED
      BY <3>1 DEF Placed
  <2>3. CASE Wal \notin DOMAIN names
    <3>1. LogAt(p, 1)'
      BY <1>7, <1>9, <2>1, <2>3 DEF LogAt, At
    <3> QED
      BY <3>1 DEF Placed
  <2> QED
    BY <2>2, <2>3
<1> HIDE DEF t
<1> QED
  BY <1>2, <1>5, <1>6, <1>7, <1>8, <1>9, GoesKeeps

LEMMA StartsKeep ==
    ASSUME PosixInv, NEW p \in Processes, Starts(p)
    PROVE  PosixInv'
<1>1. Placed(p) /\ ~Windows
  BY PosixView DEF PosixInv
<1>2. todo[p] = <<>>
  BY DEF Starts, StartOpen, StartReclaim, StartRestore, StartBackup, Idle, Ready
<1>3. ~Is(p, "sync") /\ ~Unsynced(p)
  <2>1. At(p, NewLog, 2) => todo[p] # <<>>
    <3>1. IsSeq(NewLog) /\ 2 \in 1 .. Len(NewLog)
      BY NewLogIs
    <3> QED
      BY <3>1, NextCall DEF At
  <2> QED
    BY <1>2, <2>1 DEF Is, Unsynced
<1>4. ASSUME NEW t, Start(p, t)
      PROVE  /\ todo' = [todo EXCEPT ![p] = t]
             /\ UNCHANGED <<platform, space, locked, handle, acked, promised, unsettled>>
  BY <1>4 DEF Start
<1>5. From(OpenStore, 1) = OpenStore /\ From(BirthOpen(p), 1) = BirthOpen(p) /\ From(Reclaim, 1) = Reclaim
      /\ From(RestoreFile(p), 1) = RestoreFile(p) /\ From(Backup(p), 1) = Backup(p)
  <2>1. \A s : IsSeq(s) /\ 1 \in 1 .. Len(s) => From(s, 1) = s
    BY NextCall
  <2>2. /\ 1 \in 1 .. Len(OpenStore) /\ 1 \in 1 .. Len(BirthOpen(p)) /\ 1 \in 1 .. Len(Reclaim)
        /\ 1 \in 1 .. Len(RestoreFile(p)) /\ 1 \in 1 .. Len(Backup(p))
    <3>1. Len(OpenStore) = 6 /\ Len(BirthOpen(p)) = 10 /\ Len(Reclaim) = 21 /\ Len(RestoreFile(p)) = 7
          /\ Len(Backup(p)) = 8
      BY <1>1, Lengths
    <3> QED
      BY <3>1
  <2>3. IsSeq(OpenStore) /\ IsSeq(BirthOpen(p)) /\ IsSeq(Reclaim) /\ IsSeq(RestoreFile(p)) /\ IsSeq(Backup(p))
    BY <1>1, Lengths
  <2> QED
    BY <2>1, <2>2, <2>3
<1>6. CASE Start(p, OpenStore) /\ Idle(p)
  <2>1. ASSUME Alone(p, OpenStore, handle[p]), todo'[p] = OpenStore, handle'[p] = handle[p] PROVE Placed(p)'
    <3>1. OpenAt(p, 1)'
      BY <1>5, <1>6, <2>1 DEF OpenAt, At, Idle, Nobody
    <3> QED
      BY <3>1 DEF Placed
  <2> QED
    BY <1>1, <1>3, <1>4, <1>6, <2>1, Lengths, GoesKeeps
<1>7. CASE Start(p, BirthOpen(p)) /\ Idle(p)
  <2>1. ASSUME Alone(p, BirthOpen(p), handle[p]), todo'[p] = BirthOpen(p), handle'[p] = handle[p] PROVE Placed(p)'
    <3>1. BirthAt(p, 1)'
      BY <1>5, <1>7, <2>1 DEF BirthAt, At, Idle, Nobody
    <3> QED
      BY <3>1 DEF Placed
  <2> QED
    BY <1>1, <1>3, <1>4, <1>7, <2>1, Lengths, GoesKeeps
<1>8. CASE Start(p, Reclaim) /\ Idle(p)
  <2>1. ASSUME Alone(p, Reclaim, handle[p]), todo'[p] = Reclaim, handle'[p] = handle[p] PROVE Placed(p)'
    <3>1. Reclaim' = Reclaim
      BY <2>1, ReclaimStays DEF Alone
    <3>2. ReclaimAt(p, 1)'
      BY <1>5, <1>8, <2>1, <3>1 DEF ReclaimAt, At, Idle, Nobody
    <3> QED
      BY <3>2 DEF Placed
  <2> QED
    BY <1>1, <1>3, <1>4, <1>8, <2>1, Lengths, GoesKeeps
<1>9. CASE Start(p, RestoreFile(p)) /\ Idle(p)
  <2>1. ASSUME Alone(p, RestoreFile(p), handle[p]), todo'[p] = RestoreFile(p), handle'[p] = handle[p] PROVE Placed(p)'
    <3>1. RestoreAt(p, 1)'
      BY <1>5, <1>9, <2>1 DEF RestoreAt, At, Idle, Nobody
    <3> QED
      BY <3>1 DEF Placed
  <2> QED
    BY <1>1, <1>3, <1>4, <1>9, <2>1, Lengths, GoesKeeps
<1>10. CASE Start(p, Backup(p)) /\ Ready(p)
  <2>1. Writer(p)
    <3>1. \A c : ~Is(p, c)
      BY <1>2 DEF Is
    <3>2. /\ \A s : \A i \in 1 .. Len(s) : Onward(p, s, i) => todo[p] # <<>>
          /\ Sweeping(p) => todo[p] # <<>>
      BY DEF Onward, Sweeping
    <3>3. ~Idle(p)
      BY <1>10 DEF Ready, Idle, Nobody
    <3> QED
      BY <1>1, <1>2, <3>1, <3>2, <3>3, PlacesOnward DEF Placed, Onward
  <2>2. ASSUME Alone(p, Backup(p), handle[p]), todo'[p] = Backup(p), Writer(p)' PROVE Placed(p)'
    <3>1. BackupAt(p, 1)'
      BY <1>5, <1>10, <2>2 DEF BackupAt, At
    <3> QED
      BY <3>1 DEF Placed
  <2> QED
    BY <1>1, <1>3, <1>4, <1>10, <2>1, <2>2, Lengths, GoesKeeps
<1>11. Anchor \notin DOMAIN names
  BY PosixNamesAre DEF PosixInv, MapsInv, MapOK
<1> QED
  BY <1>6, <1>7, <1>8, <1>9, <1>10, <1>11
     DEF Starts, StartOpen, StartReclaim, StartRestore, StartBackup, OpenStore, BirthOpen

-----------------------------------------------------------------------------
(* Revisions, as functions of a map and of what the files hold. *)

LogIn(d, fs) == IF Wal \in DOMAIN d THEN fs[d[Wal]].rev ELSE 0

RecoveredIn(d, fs) ==
    IF Store \in DOMAIN d
    THEN IF fs[d[Store]].rev >= LogIn(d, fs) THEN fs[d[Store]].rev ELSE LogIn(d, fs)
    ELSE 0

\* A map whose files are there, with a whole store if it has one.
Sound(d, fs) ==
    /\ Anchor \notin DOMAIN d
    /\ \A n \in DOMAIN d : fs[d[n]].rev \in Nat
    /\ Store \in DOMAIN d => fs[d[Store]].whole

LEMMA RecoveredIs ==
    /\ \A d : Sound(d, files) => Recovered(d) = RecoveredIn(d, files)
    /\ \A d : Sound(d, files') => (Recovered(d))' = RecoveredIn(d, files')
    /\ Sound(names', files') => Recovered(names)' = RecoveredIn(names', files')
    /\ Sound(names', files) => Recovered(names') = RecoveredIn(names', files)
<1> DEFINE Rec(d, fs) ==
             LET authority == {Store, Anchor} \cap DOMAIN d
                 n == IF Store \in authority THEN Store ELSE Anchor
             IN  IF authority = {} THEN 0
                 ELSE IF fs[d[n]].whole THEN Max({fs[d[n]].rev, LogIn(d, fs)}) ELSE -1
<1>1. ASSUME NEW d, NEW fs, Sound(d, fs) PROVE Rec(d, fs) = RecoveredIn(d, fs)
  <2>1. CASE Store \notin DOMAIN d
    <3>1. {Store, Anchor} \cap DOMAIN d = {}
      BY <1>1, <2>1 DEF Sound
    <3> QED
      BY <2>1, <3>1 DEF RecoveredIn
  <2>2. CASE Store \in DOMAIN d
    <3>1. fs[d[Store]].whole /\ fs[d[Store]].rev \in Int /\ LogIn(d, fs) \in Int
      BY <1>1, <2>2 DEF Sound, LogIn
    <3>2. Max({fs[d[Store]].rev, LogIn(d, fs)}) = RecoveredIn(d, fs)
      BY <2>2, <3>1, MaxOfTwo DEF RecoveredIn
    <3>3. Store \in {Store, Anchor} \cap DOMAIN d
      BY <2>2
    <3> QED
      BY <3>1, <3>2, <3>3
  <2> QED
    BY <2>1, <2>2
<1>2. \A d : Recovered(d) = Rec(d, files) /\ (Recovered(d))' = Rec(d, files')
  BY DEF Recovered, Log, LogIn
<1>3. Recovered(names)' = Rec(names', files') /\ Recovered(names') = Rec(names', files)
  BY DEF Recovered, Log, LogIn
<1> HIDE DEF Rec
<1> QED
  BY <1>1, <1>2, <1>3

LEMMA SoundNow ==
    ASSUME PosixInv
    PROVE  \A d \in disk : Sound(d, files)
  BY PosixNamesAre DEF PosixInv, TypeOK, MapsInv, MapOK, WholeInv, Sound, FileType

LEMMA RevisionNow ==
    ASSUME PosixInv
    PROVE  /\ acked = RecoveredIn(names, files) /\ promised <= acked /\ acked \in Nat /\ promised \in Nat
           /\ \A d \in disk : RecoveredIn(d, files) >= promised
           /\ \A d \in disk : RecoveredIn(d, files) \in Nat /\ LogIn(d, files) \in Nat
           /\ \A d \in disk : Store \in DOMAIN d /\ d[Store] # names[Store] => files[d[Store]].rev >= promised
<1>1. \A d \in disk : Sound(d, files)
  BY SoundNow
<1>2. \A d \in disk : Recovered(d) = RecoveredIn(d, files)
  BY <1>1, RecoveredIs
<1>3. names \in disk
  BY DEF PosixInv, MapsInv
<1>4. \A d \in disk : RecoveredIn(d, files) \in Nat /\ LogIn(d, files) \in Nat
  BY <1>1 DEF Sound, RecoveredIn, LogIn
<1> QED
  BY <1>2, <1>3, <1>4 DEF PosixInv, RevisionInv, TypeOK

LEMMA RevisionKeeps ==
    ASSUME TypeOK', MapsInv', WholeInv',
           acked' = RecoveredIn(names', files'), promised' <= acked',
           \A d \in disk' : RecoveredIn(d, files') >= promised',
           \A d \in disk' : Store \in DOMAIN d /\ d[Store] # names'[Store] => files'[d[Store]].rev >= promised'
    PROVE  RevisionInv'
<1>1. \A d \in disk' : Sound(d, files')
  BY PosixNamesAre DEF TypeOK, MapsInv, MapOK, WholeInv, Sound, FileType
<1>2. \A d \in disk' : (Recovered(d))' = RecoveredIn(d, files')
  BY <1>1, RecoveredIs
<1>3. Recovered(names)' = RecoveredIn(names', files')
  BY <1>1, RecoveredIs DEF MapsInv
<1> QED
  BY <1>2, <1>3 DEF RevisionInv

-----------------------------------------------------------------------------
(* A process ends, and a directory is synchronised. *)

LEMMA SpaceSame ==
    ASSUME PosixInv, UNCHANGED <<names, files>>, disk' \subseteq disk, names \in disk', IsFiniteSet(disk')
    PROVE  MapsInv' /\ ApartInv' /\ WholeInv' /\ OrderInv'
  BY DEF PosixInv, MapsInv, MapOK, ApartInv, WholeInv, OrderInv

LEMMA KillKeeps ==
    ASSUME PosixInv, NEW p \in Processes, Kill(p)
    PROVE  PosixInv'
<1>1. pending[p] = <<>> /\ ~Windows
  BY PosixView
<1>2. UNCHANGED <<platform, pending, names, disk, files, acked, promised>>
  BY <1>1 DEF Kill, PosixInv, TypeOK
<1>3. unsettled' = (unsettled \/ ~Settled(disk, names))
  BY <1>1 DEF Kill
<1>4. Nobody \in Handle /\ IsSeq(<<>>)
  BY Literals DEF Nobody, Handle
<1>5. Alone(p, <<>>, Nobody)
  BY <1>2 DEF Kill, Alone
<1>6. TypeOK'
  BY <1>2, <1>3, <1>4, <1>5, TypeKeeps DEF PosixInv, TypeOK
<1>7. MapsInv' /\ ApartInv' /\ WholeInv' /\ OrderInv'
  BY <1>2, SpaceSame DEF PosixInv, MapsInv
<1>8. RevisionInv'
  BY <1>2, <1>6, <1>7, RevisionNow, RevisionKeeps
<1>9. SettledInv'
  BY <1>2, <1>3 DEF PosixInv, SettledInv, Settled
<1>10. \A q \in Processes : Placed(q)'
  <2>1. \A q \in Processes \ {p} : Placed(q)'
    <3>1. \A q \in Processes \ {p} : NamesKept(q) /\ StageKept(q)
      BY <1>2 DEF NamesKept, StageKept
    <3> QED
      BY <1>5, <3>1, OthersPlaced
  <2>2. todo'[p] = <<>> /\ handle'[p] = Nobody
    BY <1>5, AloneIs
  <2> QED
    BY <2>1, <2>2 DEF Placed, Idle, Nobody
<1> QED
  BY <1>6, <1>7, <1>8, <1>9, <1>10 DEF PosixInv

\* A call that goes on with handle and locks as they are.
LEMMA GoesOnAlone ==
    ASSUME PosixInv, NEW p \in Processes, NEW c, Is(p, c), GoesOn(p), UNCHANGED <<platform, pending, locked, handle>>
    PROVE  /\ Alone(p, Tail(todo[p]), handle[p]) /\ handle[p] \in Handle /\ IsSeq(Tail(todo[p]))
           /\ todo'[p] = Tail(todo[p]) /\ handle'[p] = handle[p] /\ handle' = handle
           /\ \A q \in Processes \ {p} : todo'[q] = todo[q]
           /\ \A q, f : Holds(q, f) => Holds(q, f)'
<1>1. IsSeq(Tail(todo[p])) /\ handle[p] \in Handle
  BY CallsOnward, HandleIs
<1>2. <<>> \o Tail(todo[p]) = Tail(todo[p])
  BY <1>1, ConcatEmptySeq DEF IsSeq
<1>3. todo' = [todo EXCEPT ![p] = Tail(todo[p])]
  BY <1>2 DEF GoesOn, Goes
<1>4. handle' = [handle EXCEPT ![p] = handle[p]]
  BY DEF PosixInv, TypeOK
<1>5. Alone(p, Tail(todo[p]), handle[p])
  BY <1>3, <1>4 DEF Alone
<1> QED
  BY <1>1, <1>5, AloneIs DEF Holds

LEMMA SyncsKeep ==
    ASSUME PosixInv, NEW p \in Processes, Syncs(p)
    PROVE  PosixInv'
<1>1. pending[p] = <<>> /\ DOMAIN pending[p] = {} /\ ~Windows
  BY PosixView
<1>2. /\ Is(p, "sync") /\ disk' = {names} /\ UNCHANGED <<platform, names, pending, files, locked, handle, acked>>
      /\ GoesOn(p) /\ unsettled' = FALSE
      /\ promised' = IF Settled(disk', names') THEN acked ELSE promised
  BY <1>1 DEF Syncs, SyncDir
<1>3. promised' = acked
  BY <1>2 DEF Settled
<1>4. /\ Alone(p, Tail(todo[p]), handle[p]) /\ handle[p] \in Handle /\ IsSeq(Tail(todo[p]))
      /\ todo'[p] = Tail(todo[p]) /\ handle'[p] = handle[p]
  BY <1>2, GoesOnAlone
<1>5. acked \in Nat /\ names \in disk
  BY DEF PosixInv, TypeOK, MapsInv
<1>6. TypeOK'
  BY <1>2, <1>3, <1>4, <1>5, TypeKeeps DEF PosixInv, TypeOK
<1>7. MapsInv' /\ ApartInv' /\ WholeInv' /\ OrderInv'
  BY <1>2, <1>5, SpaceSame, FS_Singleton
<1>8. RevisionInv'
  BY <1>2, <1>3, <1>5, <1>6, <1>7, RevisionNow, RevisionKeeps
<1>9. SettledInv'
  BY <1>2, <1>3 DEF SettledInv, Settled
<1>10. Placed(p)'
  <2>1. /\ (Owns(p) => Owns(p)') /\ (Owned(p) => Owned(p)')
        /\ (LogEmpty => LogEmpty') /\ (Compacted => Compacted') /\ (Writer(p) => Writer(p)')
    BY <1>2, <1>4, OwnKept
  <2>2. Placed(p)
    BY DEF PosixInv
  <2>3. \/ BirthAt(p, 5) \/ Sweeping(p) \/ LogAt(p, 3) \/ ReclaimAt(p, 14) \/ ReclaimAt(p, 19)
        \/ RestoreAt(p, 6) \/ BackupAt(p, 4) \/ BackupAt(p, 8) \/ CloseAt(p, 2)
    BY <1>1, <1>2, <2>2, Callers
  <2>4. CASE BirthAt(p, 5)
    BY <1>4, <2>4, BirthNext DEF BirthAt
  <2>5. CASE Sweeping(p)
    <3> DEFINE t == todo[p]
    <3>1. IsSeq(t)
      BY HandleIs
    <3>2. /\ Len(t) >= 2 /\ t[Len(t)] = <<"wal">>
          /\ \A i \in 1 .. Len(t) - 2 : \E n \in Transient \cup {Anchor} : t[i] = <<"unlink", n>>
          /\ handle[p].wal = Free /\ Owned(p)
      BY <2>5 DEF Sweeping
    <3>3. Len(t) \in Nat /\ Head(t) = t[1] /\ Head(t)[1] = "sync"
      BY <1>2, <3>1 DEF Is, IsSeq
    <3>4. Len(t) = 2
      <4>1. 1 \notin 1 .. Len(t) - 2
        BY <3>2, <3>3
      <4>2. Len(t) \in Nat /\ Len(t) >= 2
        BY <3>2, <3>3
      <4>3. ASSUME NEW n \in Nat, n >= 2, 1 \notin 1 .. n - 2 PROVE n = 2
        BY <4>3
      <4> HIDE DEF t
      <4> QED
        BY <4>1, <4>2, <4>3
    <3>5. Tail(t) = <<<<"wal">>>>
      <4> DEFINE S == ToSet(t)
      <4>1. t \in Seq(S) /\ t # <<>>
        BY <3>1, <3>4 DEF IsSeq
      <4> HIDE DEF S, t
      <4>2. Tail(t) \in Seq(S) /\ Len(Tail(t)) = 1 /\ Tail(t)[1] = t[2]
        BY <3>4, <4>1, HeadTailProperties
      <4>3. Tail(t)[1] = <<"wal">>
        BY <3>2, <3>4, <4>2
      <4>4. <<<<"wal">>>> \in Seq({<<"wal">>}) /\ Len(<<<<"wal">>>>) = 1 /\ <<<<"wal">>>>[1] = <<"wal">>
        OBVIOUS
      <4>5. Tail(t) \in Seq(S \cup {<<"wal">>}) /\ <<<<"wal">>>> \in Seq(S \cup {<<"wal">>})
        BY <4>2, SeqMonotonic
      <4>6. Len(Tail(t)) = Len(<<<<"wal">>>>) /\ \A i \in 1 .. Len(Tail(t)) : Tail(t)[i] = <<<<"wal">>>>[i]
        BY <4>2, <4>3, <4>4
      <4> QED
        BY <4>5, <4>6, SeqEqual
    <3>6. OpenAt(p, 6)'
      <4>1. At(p, OpenStore, 6)'
        BY <1>1, <1>4, <3>5, LastOpening DEF At
      <4> QED
        BY <1>4, <2>1, <3>2, <4>1 DEF OpenAt
    <3> QED
      BY <3>6 DEF Placed
  <2>6. CASE LogAt(p, 3)
    BY <1>2, <1>4, <2>1, <2>6, LogNext DEF LogAt
  <2>7. CASE ReclaimAt(p, 14)
    BY <1>4, <2>1, <2>7, ReclaimNext DEF ReclaimAt
  <2>8. CASE ReclaimAt(p, 19)
    BY <1>4, <2>1, <2>8, ReclaimNext DEF ReclaimAt
  <2>9. CASE RestoreAt(p, 6)
    BY <1>4, <2>9, RestoreNext DEF RestoreAt
  <2>10. CASE BackupAt(p, 4)
    BY <1>4, <2>1, <2>10, BackupNext DEF BackupAt
  <2>11. CASE BackupAt(p, 8)
    <3>1. Tail(todo[p]) = From(Backup(p), 9)
      BY <1>1, <2>11, PlacesOnward DEF Onward
    <3>2. From(Backup(p), 9) = <<>>
      <4>1. IsSeq(Backup(p)) /\ Len(Backup(p)) = 8
        BY <1>1, Lengths
      <4>2. 1 \in 1 .. Len(Backup(p)) /\ Len(Backup(p)) + 1 = 9
        BY <4>1
      <4>3. From(Backup(p), Len(Backup(p)) + 1) = <<>>
        BY <4>1, <4>2, NextCall
      <4> QED
        BY <4>2, <4>3
    <3> QED
      BY <1>4, <2>1, <2>11, <3>1, <3>2 DEF BackupAt, Placed
  <2>12. CASE CloseAt(p, 2)
    BY <1>4, <2>12, CloseNext
  <2> QED
    BY <2>3, <2>4, <2>5, <2>6, <2>7, <2>8, <2>9, <2>10, <2>11, <2>12
<1>11. \A q \in Processes \ {p} : Placed(q)'
  <2>1. \A q \in Processes \ {p} : NamesKept(q) /\ StageKept(q)
    BY <1>2 DEF NamesKept, StageKept
  <2> QED
    BY <1>4, <2>1, OthersPlaced
<1> QED
  BY <1>6, <1>7, <1>8, <1>9, <1>10, <1>11 DEF PosixInv

-----------------------------------------------------------------------------
(* Bytes are written. *)

LEMMA PutFile ==
    ASSUME PosixInv, NEW f \in Nat \ {0}, NEW rev \in Nat, NEW whole \in BOOLEAN,
           files' = Put(files, f, File(rev, whole))
    PROVE  /\ DOMAIN files' = DOMAIN files \cup {f} /\ DOMAIN files' \subseteq Nat \ {0}
           /\ files' \in [DOMAIN files' -> FileType]
           /\ files'[f].rev = rev /\ files'[f].whole = whole
           /\ \A g \in DOMAIN files : g # f => files'[g] = files[g]
  BY DEF PosixInv, TypeOK, Put, File, FileType

LEMMA SameNames ==
    ASSUME PosixInv, UNCHANGED <<names, disk>>, DOMAIN files \subseteq DOMAIN files'
    PROVE  MapsInv' /\ ApartInv' /\ OrderInv'
  BY DEF PosixInv, MapsInv, MapOK, ApartInv, OrderInv

LEMMA SameRevisions ==
    ASSUME PosixInv, UNCHANGED <<names, disk, acked, promised>>, TypeOK', MapsInv', WholeInv',
           \A d \in disk : \A n \in {Store, Wal} \cap DOMAIN d : files'[d[n]].rev = files[d[n]].rev
    PROVE  RevisionInv'
<1>1. \A d \in disk : RecoveredIn(d, files') = RecoveredIn(d, files)
  BY DEF RecoveredIn, LogIn
<1>2. RecoveredIn(names, files') = RecoveredIn(names, files)
  BY <1>1 DEF PosixInv, MapsInv
<1>3. \A d \in disk : Store \in DOMAIN d => files'[d[Store]].rev = files[d[Store]].rev
  OBVIOUS
<1> QED
  BY <1>1, <1>2, <1>3, RevisionNow, RevisionKeeps

\* The file that what is staged stands for has no public name, and no other.
LEMMA StagedFile ==
    ASSUME PosixInv, NEW n \in DOMAIN names \ Public
    PROVE  /\ names[n] \in DOMAIN files /\ names[n] \in Nat \ {0}
           /\ \A d \in disk : \A m \in Public \cap DOMAIN d : d[m] # names[n] /\ d[m] \in DOMAIN files
           /\ \A m \in DOMAIN names : m # n => names[m] # names[n]
           /\ \A m \in DOMAIN names : names[m] \in DOMAIN files
  BY DEF PosixInv, TypeOK, MapsInv, MapOK, ApartInv

LEMMA OneOwner ==
    ASSUME NEW p, NEW q, Owns(p), Owns(q)
    PROVE  p = q
  BY DEF Owns, Holds

LEMMA WritesStaged ==
    ASSUME PosixInv, NEW p \in Processes, NEW c, Is(p, c), c # "sync", ~Unsynced(p),
           NEW n \in DOMAIN names \ Public, n \in Staged(p) \/ (n = Staging /\ Owns(p)),
           NEW rev \in Nat, files' = Put(files, names[n], File(rev, TRUE)),
           GoesOn(p), UNCHANGED <<platform, names, disk, pending, locked, handle, acked, promised, unsettled>>,
           /\ files'[names[n]].rev = rev /\ files'[names[n]].whole
           /\ \A m \in DOMAIN names : m # n => files'[names[m]] = files[names[m]]
           => Placed(p)'
    PROVE  PosixInv'
<1>1. /\ names[n] \in DOMAIN files /\ names[n] \in Nat \ {0}
      /\ \A d \in disk : \A m \in Public \cap DOMAIN d : d[m] # names[n] /\ d[m] \in DOMAIN files
      /\ \A m \in DOMAIN names : m # n => names[m] # names[n]
      /\ \A m \in DOMAIN names : names[m] \in DOMAIN files
  BY StagedFile
<1>2. /\ DOMAIN files' = DOMAIN files /\ DOMAIN files' \subseteq Nat \ {0}
      /\ files' \in [DOMAIN files' -> FileType]
      /\ files'[names[n]].rev = rev /\ files'[names[n]].whole
      /\ \A g \in DOMAIN files : g # names[n] => files'[g] = files[g]
  <2> DEFINE f == names[n]
  <2>1. f \in DOMAIN files /\ f \in Nat \ {0} /\ files' = Put(files, f, File(rev, TRUE))
    BY <1>1
  <2> HIDE DEF f
  <2>2. /\ DOMAIN files' = DOMAIN files \cup {f} /\ DOMAIN files' \subseteq Nat \ {0}
        /\ files' \in [DOMAIN files' -> FileType]
        /\ files'[f].rev = rev /\ files'[f].whole = TRUE
        /\ \A g \in DOMAIN files : g # f => files'[g] = files[g]
    BY <2>1, PutFile
  <2>3. DOMAIN files' = DOMAIN files
    BY <2>1, <2>2
  <2> QED
    BY <2>2, <2>3 DEF f
<1>3. \A m \in DOMAIN names : m # n => files'[names[m]] = files[names[m]]
  BY <1>1, <1>2
<1>4. \A d \in disk : \A m \in Public \cap DOMAIN d : files'[d[m]] = files[d[m]]
  BY <1>1, <1>2
<1>5. /\ Alone(p, Tail(todo[p]), handle[p]) /\ handle[p] \in Handle /\ IsSeq(Tail(todo[p]))
      /\ \A q \in Processes \ {p} : todo'[q] = todo[q]
      /\ \A q, f : Holds(q, f) => Holds(q, f)'
  BY GoesOnAlone
<1>6. TypeOK'
  BY <1>2, <1>5, TypeKeeps DEF PosixInv, TypeOK
<1>7. MapsInv' /\ ApartInv' /\ OrderInv'
  BY <1>2, SameNames
<1>8. WholeInv'
  <2>1. ASSUME NEW d \in disk, NEW m \in {Store, Copied} \cap DOMAIN d PROVE files'[d[m]].whole
    <3>1. files[d[m]].whole
      BY <2>1 DEF PosixInv, WholeInv
    <3>2. m \in Public \cap DOMAIN d
      BY <2>1 DEF Public
    <3>3. files'[d[m]] = files[d[m]]
      BY <1>4, <2>1, <3>2
    <3> QED
      BY <3>1, <3>3
  <2> QED
    BY <2>1 DEF WholeInv
<1>9. RevisionInv'
  BY <1>4, <1>6, <1>7, <1>8, SameRevisions DEF Public
<1>10. SettledInv'
  <2>1. ~Is(p, "sync")
    BY DEF Is
  <2> QED
    BY <1>5, <2>1, SettledKeeps
<1>11. ASSUME NEW q \in Processes \ {p} PROVE NamesKept(q) /\ StageKept(q)
  <2>1. n \notin {Store, Wal}
    BY DEF Public
  <2>2. Owns(q) => n # Staging
    <3>1. Staging \notin Staged(p)
      BY NamesApart DEF Staged
    <3> QED
      BY <3>1, OneOwner
  <2>3. NamesKept(q)
    BY <1>3, <2>1, <2>2 DEF NamesKept
  <2>4. n \notin Staged(q)
    BY NamesApart DEF Staged
  <2> QED
    BY <1>3, <2>3, <2>4 DEF StageKept
<1>12. \A q \in Processes \ {p} : Placed(q)'
  BY <1>5, <1>11, OthersPlaced
<1>13. Placed(p)'
  BY <1>2, <1>3
<1> QED
  BY <1>6, <1>7, <1>8, <1>9, <1>10, <1>12, <1>13 DEF PosixInv

LEMMA WritesLog ==
    ASSUME PosixInv, NEW p \in Processes, LogAt(p, 2), Is(p, "birth"), GoesOn(p),
           files' = Put(files, names[Wal], File(0, TRUE)),
           UNCHANGED <<platform, names, disk, pending, locked, handle, acked, promised, unsettled>>
    PROVE  PosixInv'
<1> DEFINE f == names[Wal]
<1>1. Owned(p) /\ Wal \in DOMAIN names /\ LogEmpty /\ files[f].rev = 0 /\ handle[p].wal = Free
  BY DEF LogAt, LogEmpty
<1>2. /\ f \in DOMAIN files /\ f \in Nat \ {0} /\ names \in disk
      /\ \A d \in disk : Store \in DOMAIN d => d[Store] # f
      /\ \A d \in disk : \A m \in DOMAIN d : d[m] \in DOMAIN files
      /\ \A m \in DOMAIN names : m # Wal => names[m] # f
  BY <1>1 DEF PosixInv, TypeOK, MapsInv, MapOK, ApartInv
<1>3. files' = Put(files, f, File(0, TRUE))
  OBVIOUS
<1> HIDE DEF f
<1>4. /\ DOMAIN files' = DOMAIN files \cup {f} /\ DOMAIN files' \subseteq Nat \ {0}
      /\ files' \in [DOMAIN files' -> FileType]
      /\ files'[f].rev = 0 /\ files'[f].whole = TRUE
      /\ \A g \in DOMAIN files : g # f => files'[g] = files[g]
  BY <1>2, <1>3, PutFile
<1>5. /\ Alone(p, Tail(todo[p]), handle[p]) /\ handle[p] \in Handle /\ IsSeq(Tail(todo[p]))
      /\ todo'[p] = Tail(todo[p]) /\ handle'[p] = handle[p]
      /\ \A q, g : Holds(q, g) => Holds(q, g)'
  BY GoesOnAlone
<1>6. TypeOK'
  BY <1>4, <1>5, TypeKeeps DEF PosixInv, TypeOK
<1>7. MapsInv' /\ ApartInv' /\ OrderInv'
  BY <1>4, SameNames
<1>8. WholeInv'
  <2>1. ASSUME NEW d \in disk, NEW m \in {Store, Copied} \cap DOMAIN d PROVE files'[d[m]].whole
    <3>1. files[d[m]].whole /\ d[m] \in DOMAIN files
      BY <1>2, <2>1 DEF PosixInv, WholeInv
    <3>2. CASE d[m] = f
      BY <1>4, <3>2
    <3>3. CASE d[m] # f
      BY <1>4, <3>1, <3>3
    <3> QED
      BY <3>2, <3>3
  <2> QED
    BY <2>1 DEF WholeInv
<1>9. RevisionInv'
  <2>1. \A d \in disk : \A n \in {Store, Wal} \cap DOMAIN d : files'[d[n]].rev = files[d[n]].rev
    BY <1>1, <1>2, <1>4
  <2> QED
    BY <1>6, <1>7, <1>8, <2>1, SameRevisions
<1>10. LogAt(p, 3)' /\ Placed(p)'
  <2>1. Owned(p)'
    BY <1>1, <1>5 DEF Owned, Owns
  <2> QED
    BY <1>1, <1>5, <2>1, LogNext
<1>11. SettledInv'
  <2>1. Is(p, "sync")'
    <3>1. ~Windows
      BY PosixView
    <3>2. At(p, NewLog, 3)'
      BY <1>10 DEF LogAt
    <3>3. IsSeq(NewLog) /\ 3 \in 1 .. Len(NewLog) /\ NewLog[3][1] = "sync"
      BY NewLogIs
    <3>4. From(NewLog, 3) # <<>> /\ Head(From(NewLog, 3)) = NewLog[3]
      BY <3>3, NextCall
    <3> QED
      BY <3>2, <3>3, <3>4 DEF Is, At
  <2>2. Unsynced(p)'
    BY <1>10, <2>1 DEF LogAt, Owned, Unsynced
  <2> QED
    BY <2>1, <2>2 DEF PosixInv, SettledInv, Settled
<1>12. \A q \in Processes \ {p} : Placed(q)'
  <2>1. ASSUME NEW q \in Processes \ {p} PROVE NamesKept(q) /\ StageKept(q)
    <3>1. ~Owns(q)
      BY <1>1, OneOwner DEF Owned
    <3>2. Wal \notin Staged(q)
      BY NamesApart DEF Staged, Public
    <3>3. \A n \in Staged(q) \cap DOMAIN names : files'[names[n]] = files[names[n]]
      BY <1>2, <1>4, <3>2 DEF PosixInv, MapsInv
    <3> QED
      BY <3>1, <3>3 DEF NamesKept, StageKept
  <2> QED
    BY <1>5, <2>1, OthersPlaced
<1> QED
  BY <1>6, <1>7, <1>8, <1>9, <1>10, <1>11, <1>12 DEF PosixInv

LEMMA WritesKeep ==
    ASSUME PosixInv, NEW p \in Processes, Writes(p)
    PROVE  PosixInv'
<1> DEFINE n == Arg(p, 1)
           rev == IF Is(p, "birth") THEN 0 ELSE files[names[Arg(p, 2)]].rev
           ok == n \in DOMAIN names /\ (Is(p, "fill") => Arg(p, 2) \in DOMAIN names)
<1>1. View(p) = names /\ (\A m : Exists(p, m) <=> m \in DOMAIN names) /\ ~Windows
  BY PosixView
<1>2. Is(p, "birth") \/ Is(p, "fill")
  BY DEF Writes
<1>3. Placed(p)
  BY DEF PosixInv
<1>4. /\ Is(p, "birth") => BirthAt(p, 3) \/ LogAt(p, 2) \/ ReclaimAt(p, 13) \/ BackupAt(p, 3)
      /\ Is(p, "fill") => ReclaimAt(p, 15) \/ RestoreAt(p, 3) \/ BackupAt(p, 5)
  BY <1>1, <1>3, Callers
<1>5. /\ BirthAt(p, 3) => n = Stage("creating", p)
      /\ LogAt(p, 2) => n = Wal
      /\ ReclaimAt(p, 13) \/ ReclaimAt(p, 15) => n = Staging
      /\ BackupAt(p, 3) \/ BackupAt(p, 5) => n = Stage("backing-up", p)
      /\ RestoreAt(p, 3) => n = Stage("restoring", p)
  <2>1. /\ BirthAt(p, 3) => Onward(p, BirthOpen(p), 3)
        /\ LogAt(p, 2) => Onward(p, NewLog, 2)
        /\ ReclaimAt(p, 13) => Onward(p, Reclaim, 13)
        /\ ReclaimAt(p, 15) => Onward(p, Reclaim, 15)
        /\ BackupAt(p, 3) => Onward(p, Backup(p), 3)
        /\ BackupAt(p, 5) => Onward(p, Backup(p), 5)
        /\ RestoreAt(p, 3) => Onward(p, RestoreFile(p), 3)
    BY <1>1, PlacesOnward
  <2>2. BirthAt(p, 3) => n = Stage("creating", p)
    BY <2>1, BirthOpenIs DEF Onward, Arg
  <2>3. LogAt(p, 2) => n = Wal
    BY <2>1, NewLogIs DEF Onward, Arg
  <2>4. ReclaimAt(p, 13) \/ ReclaimAt(p, 15) => n = Staging
    <3>1. Reclaim[13] = <<"birth", Staging>> /\ Reclaim[15] = <<"fill", Staging, Store>>
      BY <1>1, ReclaimIs
    <3> QED
      BY <2>1, <3>1 DEF Onward, Arg
  <2>5. BackupAt(p, 3) \/ BackupAt(p, 5) => n = Stage("backing-up", p)
    BY <2>1, BackupIs DEF Onward, Arg
  <2>6. RestoreAt(p, 3) => n = Stage("restoring", p)
    BY <2>1, RestoreIs DEF Onward, Arg
  <2> QED
    BY <2>2, <2>3, <2>4, <2>5, <2>6
<1>6. ReclaimAt(p, 15) => Arg(p, 2) = Store
  <2>1. ReclaimAt(p, 15) => Onward(p, Reclaim, 15)
    BY <1>1, PlacesOnward
  <2>2. Reclaim[15] = <<"fill", Staging, Store>>
    BY <1>1, ReclaimIs
  <2> QED
    BY <2>1, <2>2 DEF Onward, Arg
<1>7. ~Is(p, "sync")
  BY <1>2 DEF Is
<1>8. CASE ~ok
  <2>1. Refused(p)
    BY <1>1, <1>8 DEF Writes
  <2>2. ~Unsynced(p)
    <3>1. ASSUME At(p, NewLog, 2), Wal \in DOMAIN names PROVE FALSE
      <4>1. Head(todo[p]) = NewLog[2]
        <5>1. IsSeq(NewLog) /\ 2 \in 1 .. Len(NewLog)
          BY NewLogIs
        <5> QED
          BY <3>1, <5>1, NextCall DEF At
      <4>2. n = Wal /\ ~Is(p, "fill")
        BY <4>1, NewLogIs DEF Arg, Is
      <4> QED
        BY <1>8, <3>1, <4>2
    <3> QED
      BY <1>7, <3>1 DEF Unsynced
  <2> QED
    BY <1>7, <2>1, <2>2, RefusedKeeps
<1>9. CASE ok
  <2>1. /\ files' = Put(files, names[n], File(rev, TRUE)) /\ GoesOn(p)
        /\ UNCHANGED <<platform, names, disk, pending, locked, handle, acked, promised, unsettled>>
    BY <1>1, <1>9 DEF Writes, Names, GoesOn, history
  <2>2. rev \in Nat
    BY <1>2, <1>9 DEF PosixInv, TypeOK, MapsInv, MapOK, FileType
  <2>3. CASE LogAt(p, 2)
    <3>1. Is(p, "birth")
      <4>1. Onward(p, NewLog, 2)
        BY <1>1, <2>3, PlacesOnward
      <4> QED
        BY <4>1, NewLogIs DEF Onward, Is
    <3> QED
      BY <1>5, <2>1, <2>3, <3>1, WritesLog
  <2>4. CASE ~LogAt(p, 2)
    <3>1. n \in DOMAIN names \ Public /\ (n \in Staged(p) \/ (n = Staging /\ Owns(p)))
      BY <1>2, <1>4, <1>5, <1>9, <2>4, PosixNamesAre DEF Staged, ReclaimAt, Owned
    <3>2. ~Unsynced(p)
      <4>1. ASSUME At(p, NewLog, 2) PROVE FALSE
        <5>1. IsSeq(NewLog) /\ 2 \in 1 .. Len(NewLog)
          BY NewLogIs
        <5>2. Head(todo[p]) = NewLog[2]
          BY <4>1, <5>1, NextCall DEF At
        <5>3. n = Wal
          BY <5>2, NewLogIs DEF Arg
        <5> QED
          BY <3>1, <5>3 DEF Public
      <4> QED
        BY <1>7, <4>1 DEF Unsynced
    <3>3. /\ Alone(p, Tail(todo[p]), handle[p]) /\ handle'[p] = handle[p]
          /\ \A q, f : Holds(q, f) => Holds(q, f)'
      BY <1>2, <2>1, GoesOnAlone
    <3>4. (Owns(p) => Owns(p)') /\ (Owned(p) => Owned(p)') /\ (Writer(p) => Writer(p)')
      BY <2>1, <3>3 DEF Owns, Owned, Writer
    <3>5. ASSUME files'[names[n]].rev = rev /\ files'[names[n]].whole,
                 \A m \in DOMAIN names : m # n => files'[names[m]] = files[names[m]]
          PROVE  Placed(p)'
      <4>0. LogEmpty => LogEmpty'
        BY <2>1, <3>1, <3>5 DEF LogEmpty, Public
      <4>1. CASE BirthAt(p, 3)
        <5>1. WholeIf(Stage("creating", p))'
          BY <1>5, <2>1, <3>5, <4>1 DEF WholeIf
        <5> QED
          BY <3>3, <4>1, <5>1, BirthNext DEF BirthAt
      <4>2. CASE ReclaimAt(p, 13)
        BY <3>3, <3>4, <4>0, <4>2, ReclaimNext DEF ReclaimAt
      <4>3. CASE BackupAt(p, 3)
        BY <3>3, <3>4, <4>3, BackupNext DEF BackupAt
      <4>4. CASE ReclaimAt(p, 15) /\ Is(p, "fill")
        <5>1. Store \in DOMAIN names /\ Store # n /\ rev = files[names[Store]].rev
          <6>1. ~Is(p, "birth")
            BY <4>4 DEF Is
          <6> QED
            BY <1>6, <1>9, <3>1, <4>4, <6>1 DEF Public
        <5>2. Compacted'
          BY <1>5, <2>1, <3>5, <4>4, <5>1 DEF Compacted
        <5> QED
          BY <3>3, <3>4, <4>0, <4>4, <5>2, ReclaimNext DEF ReclaimAt
      <4>5. CASE RestoreAt(p, 3)
        BY <3>3, <4>5, RestoreNext DEF RestoreAt
      <4>6. CASE BackupAt(p, 5)
        BY <3>3, <3>4, <4>6, BackupNext DEF BackupAt
      <4> QED
        BY <1>2, <1>4, <2>4, <4>1, <4>2, <4>3, <4>4, <4>5, <4>6
    <3> HIDE DEF n, rev
    <3>6. \E c : Is(p, c) /\ c # "sync"
      BY <1>2
    <3> QED
      BY <2>1, <2>2, <3>1, <3>2, <3>5, <3>6, WritesStaged
  <2> QED
    BY <2>3, <2>4
<1> QED
  BY <1>8, <1>9

-----------------------------------------------------------------------------
(* A name comes to stand for a new file. *)

\* No step that leaves the store and the log their names unsettles anything.
LEMMA SettledStays ==
    ASSUME PosixInv, NEW p \in Processes, UNCHANGED <<acked, promised, unsettled>>,
           ~Is(p, "sync"), ~Unsynced(p),
           \A q \in Processes \ {p} : todo'[q] = todo[q],
           \A q, f : Holds(q, f) => Holds(q, f)',
           disk \subseteq disk',
           \A n \in {Store, Wal} : /\ n \in DOMAIN names' <=> n \in DOMAIN names
                                   /\ n \in DOMAIN names => names'[n] = names[n],
           \A d \in disk' : d \in disk \/ \A n \in {Store, Wal} \cap DOMAIN names : n \in DOMAIN d /\ d[n] = names[n]
    PROVE  SettledInv'
<1>1. Settled(disk', names') <=> Settled(disk, names)
  BY DEF Settled
<1>1a. Settled(disk, names)' <=> Settled(disk', names')
  BY DEF Settled
<1>2. (\A q \in Processes : ~Is(q, "sync")') => \A q \in Processes : ~Is(q, "sync")
  BY DEF Is
<1>3. (\E q \in Processes : Unsynced(q)) => \E q \in Processes : Unsynced(q)'
  <2>1. ASSUME NEW q \in Processes \ {p}, Unsynced(q) PROVE Unsynced(q)'
    <3>1. Owns(q)'
      BY <2>1 DEF Unsynced, Owns
    <3>2. Is(q, "sync") <=> Is(q, "sync")'
      BY DEF Is
    <3>3. At(q, NewLog, 2) <=> At(q, NewLog, 2)'
      BY DEF At, From, NewLog
    <3> QED
      BY <2>1, <3>1, <3>2, <3>3 DEF Unsynced
  <2> QED
    BY <2>1
<1>4. unsettled' = unsettled /\ promised' = promised /\ acked' = acked
  OBVIOUS
<1>5. Wal \in DOMAIN names' <=> Wal \in DOMAIN names
  OBVIOUS
<1>6. SettledInv
  BY DEF PosixInv
<1>7. ASSUME ~unsettled'
      PROVE  /\ Settled(disk, names)' => promised' = acked'
             /\ Wal \in DOMAIN names' => Settled(disk, names)' \/ \E q \in Processes : Unsynced(q)'
             /\ (\A q \in Processes : ~Is(q, "sync")') => promised' = acked'
  BY <1>1, <1>1a, <1>2, <1>3, <1>4, <1>5, <1>6, <1>7 DEF SettledInv
<1> QED
  BY <1>7 DEF SettledInv

LEMMA FreshSpace ==
    ASSUME PosixInv, TypeOK', NEW n \in PosixNames,
           n \notin Public \/ (n = Wal /\ Wal \notin DOMAIN names /\ Store \in DOMAIN names),
           names' = Put(names, n, Fresh), disk' = disk \cup {names'},
           files' = Put(files, Fresh, File(0, FALSE)), UNCHANGED <<acked, promised>>
    PROVE  /\ MapsInv' /\ ApartInv' /\ WholeInv' /\ OrderInv' /\ RevisionInv'
           /\ DOMAIN names' = DOMAIN names \cup {n} /\ names'[n] = Fresh /\ files'[Fresh].rev = 0
           /\ \A m \in DOMAIN names : m # n => names'[m] = names[m]
           /\ \A d \in disk : \A m : m \in DOMAIN d => files'[d[m]] = files[d[m]]
<1> DEFINE f == Fresh
           e == names'
<1>1. /\ f \in Nat \ {0} /\ \A d \in disk : \A m \in DOMAIN d : d[m] # f
      /\ files' = Put(files, f, File(0, FALSE)) /\ e = Put(names, n, f)
      /\ \A m \in DOMAIN names : names[m] # f
  BY FreshIs
<1> HIDE DEF f
<1>2. /\ DOMAIN files' = DOMAIN files \cup {f} /\ files'[f].rev = 0
      /\ \A g \in DOMAIN files : g # f => files'[g] = files[g]
  BY <1>1, PutFile
<1>3. /\ DOMAIN e = DOMAIN names \cup {n} /\ e[n] = f /\ \A m \in DOMAIN names : m # n => e[m] = names[m]
      /\ e = [m \in DOMAIN names \cup {n} |-> IF m = n THEN f ELSE names[m]]
  BY <1>1 DEF Put
<1>4. names \in disk /\ (\A d \in disk : MapOK(d)) /\ IsFiniteSet(disk)
  BY DEF PosixInv, MapsInv
<1>5. \A d \in disk : \A m \in DOMAIN d : d[m] \in DOMAIN files /\ files'[d[m]] = files[d[m]]
  <2>1. \A d \in disk : \A m \in DOMAIN d : d[m] \in DOMAIN files
    BY <1>4 DEF MapOK
  <2> QED
    BY <1>1, <1>2, <2>1
<1>6. disk' = disk \cup {e}
  OBVIOUS
<1> HIDE DEF e
<1>7. /\ DOMAIN e \subseteq PosixNames /\ e \in [DOMAIN e -> DOMAIN files']
      /\ \A k, m \in DOMAIN e : e[k] = e[m] => k = m
  <2>1. DOMAIN names \subseteq PosixNames /\ \A k, m \in DOMAIN names : names[k] = names[m] => k = m
    BY <1>4 DEF MapOK
  <2>2. \A m \in DOMAIN e : e[m] \in DOMAIN files'
    BY <1>2, <1>3, <1>4, <1>5
  <2>3. \A k, m \in DOMAIN e : e[k] = e[m] => k = m
    BY <1>1, <1>3, <2>1
  <2> QED
    BY <1>3, <2>1, <2>2, <2>3
<1>8. MapsInv'
  <2>1. \A d \in disk : /\ DOMAIN d \subseteq PosixNames /\ d \in [DOMAIN d -> DOMAIN files']
                       /\ \A k, m \in DOMAIN d : d[k] = d[m] => k = m
    <3>1. DOMAIN files \subseteq DOMAIN files'
      BY <1>2
    <3> QED
      BY <1>4, <3>1 DEF MapOK
  <2>2. IsFiniteSet(disk')
    BY <1>4, <1>6, FS_AddElement
  <2>3. names' \in disk'
    OBVIOUS
  <2> QED
    BY <1>6, <1>7, <2>1, <2>2, <2>3 DEF MapsInv, MapOK
<1>9. n # Store /\ n # Copied
  BY NamesApart DEF Public
<1>10. ApartInv'
  <2>1. ASSUME NEW d \in disk', NEW k \in DOMAIN e \ Public, NEW m \in Public \cap DOMAIN d
        PROVE  d[m] # e[k]
    <3>1. CASE d \in disk /\ k = n
      BY <1>1, <1>3, <3>1
    <3>2. CASE d \in disk /\ k # n
      BY <1>3, <2>1, <3>2 DEF PosixInv, ApartInv
    <3>3. CASE d = e /\ m = n
      BY <1>1, <1>3, <2>1, <3>3
    <3>4. CASE d = e /\ m # n
      <4>1. m \in Public \cap DOMAIN names /\ d[m] = names[m]
        BY <1>3, <3>4
      <4>2. CASE k = n
        BY <1>1, <1>3, <4>1, <4>2
      <4>3. CASE k # n
        BY <1>3, <1>4, <2>1, <4>1, <4>3 DEF PosixInv, ApartInv
      <4> QED
        BY <4>2, <4>3
    <3> QED
      BY <1>6, <3>1, <3>2, <3>3, <3>4
  <2>2. ASSUME NEW a \in disk', NEW b \in disk', Wal \in DOMAIN a, Store \in DOMAIN b
        PROVE  a[Wal] # b[Store]
    <3>1. \E x \in disk : Store \in DOMAIN x /\ b[Store] = x[Store]
      BY <1>3, <1>4, <1>6, <1>9, <2>2
    <3>2. CASE a = e /\ n = Wal
      BY <1>1, <1>3, <3>1, <3>2
    <3>3. CASE a # e \/ n # Wal
      <4>1. \E x \in disk : Wal \in DOMAIN x /\ a[Wal] = x[Wal]
        BY <1>3, <1>4, <1>6, <2>2, <3>3
      <4> QED
        BY <3>1, <4>1 DEF PosixInv, ApartInv
    <3> QED
      BY <3>2, <3>3
  <2> QED
    BY <2>1, <2>2 DEF ApartInv, e
<1>11. WholeInv'
  <2>1. ASSUME NEW d \in disk', NEW m \in {Store, Copied} \cap DOMAIN d PROVE files'[d[m]].whole
    <3>1. PICK x \in disk : m \in DOMAIN x /\ d[m] = x[m]
      BY <1>3, <1>4, <1>6, <1>9
    <3>2. files[x[m]].whole
      BY <3>1 DEF PosixInv, WholeInv
    <3>3. files'[x[m]] = files[x[m]]
      BY <1>5, <3>1
    <3> QED
      BY <3>1, <3>2, <3>3
  <2> QED
    BY <2>1 DEF WholeInv
<1>12. OrderInv'
  <2>1. OrderInv
    BY DEF PosixInv
  <2>2. \A d \in disk' : Wal \in DOMAIN d => Store \in DOMAIN d
    BY <1>3, <1>4, <1>6, <1>9, <2>1 DEF OrderInv, Public
  <2>3. \A d \in disk' : Store \in DOMAIN d => Store \in DOMAIN e
    BY <1>3, <1>4, <1>6, <2>1 DEF OrderInv
  <2> QED
    BY <2>2, <2>3 DEF OrderInv, e
<1>13. RevisionInv'
  <2>1. \A d \in disk : RecoveredIn(d, files') = RecoveredIn(d, files)
    BY <1>5 DEF RecoveredIn, LogIn
  <2>2. RecoveredIn(e, files') = RecoveredIn(names, files)
    <3>1. Store \in DOMAIN e <=> Store \in DOMAIN names
      BY <1>3, <1>9
    <3>2. Store \in DOMAIN names => files'[e[Store]] = files[names[Store]]
      <4>1. Store \in DOMAIN names => e[Store] = names[Store]
        BY <1>3, <1>9
      <4> QED
        BY <1>4, <1>5, <4>1
    <3>3. LogIn(e, files') = LogIn(names, files)
      <4>1. CASE n = Wal
        BY <1>2, <1>3, <4>1 DEF LogIn, Public
      <4>2. CASE n # Wal
        <5>1. Wal \in DOMAIN e <=> Wal \in DOMAIN names
          BY <1>3, <4>2
        <5>2. Wal \in DOMAIN names => files'[e[Wal]] = files[names[Wal]]
          <6>1. Wal \in DOMAIN names => e[Wal] = names[Wal]
            BY <1>3, <4>2
          <6> QED
            BY <1>4, <1>5, <6>1
        <5> QED
          BY <5>1, <5>2 DEF LogIn
      <4> QED
        BY <4>1, <4>2
    <3> QED
      BY <3>1, <3>2, <3>3 DEF RecoveredIn
  <2>3. ASSUME NEW d \in disk', Store \in DOMAIN d, d[Store] # e[Store] PROVE d \in disk /\ d[Store] # names[Store]
    <3>1. d \in disk
      BY <1>6, <2>3
    <3>2. Store \in DOMAIN names
      BY <2>3, <3>1 DEF PosixInv, OrderInv
    <3> QED
      BY <1>3, <1>9, <2>3, <3>1, <3>2
  <2>4. \A d \in disk : Store \in DOMAIN d => files'[d[Store]] = files[d[Store]]
    BY <1>5
  <2>5. acked' = RecoveredIn(e, files') /\ promised' <= acked'
    BY <2>2, RevisionNow
  <2>6. \A d \in disk' : RecoveredIn(d, files') >= promised'
    BY <1>4, <1>6, <2>1, <2>2, RevisionNow
  <2>7. \A d \in disk' : Store \in DOMAIN d /\ d[Store] # e[Store] => files'[d[Store]].rev >= promised'
    BY <2>3, <2>4, RevisionNow
  <2> QED
    BY <1>8, <1>11, <2>5, <2>6, <2>7, RevisionKeeps DEF e
<1> QED
  BY <1>2, <1>3, <1>5, <1>8, <1>10, <1>11, <1>12, <1>13 DEF e, f

LEMMA StagesKeep ==
    ASSUME PosixInv, NEW p \in Processes, Stages(p)
    PROVE  PosixInv'
<1> DEFINE n == Arg(p, 1)
<1>1. ~Windows
  BY PosixView
<1>2. Is(p, "stage") /\ ~Is(p, "sync") /\ ~Unsynced(p)
  BY NotUnsynced DEF Stages
<1>3. BirthAt(p, 1) \/ ReclaimAt(p, 12) \/ RestoreAt(p, 2) \/ BackupAt(p, 2)
  BY <1>1, <1>2, Callers DEF PosixInv
<1>4. /\ BirthAt(p, 1) => n = Stage("creating", p)
      /\ ReclaimAt(p, 12) => n = Staging
      /\ BackupAt(p, 2) => n = Stage("backing-up", p)
      /\ RestoreAt(p, 2) => n = Stage("restoring", p)
  <2>1. /\ BirthAt(p, 1) => Onward(p, BirthOpen(p), 1)
        /\ ReclaimAt(p, 12) => Onward(p, Reclaim, 12)
        /\ BackupAt(p, 2) => Onward(p, Backup(p), 2)
        /\ RestoreAt(p, 2) => Onward(p, RestoreFile(p), 2)
    BY <1>1, PlacesOnward
  <2>2. BirthAt(p, 1) => n = Stage("creating", p)
    BY <2>1, BirthOpenIs DEF Onward, Arg
  <2>3. ReclaimAt(p, 12) => n = Staging
    <3>1. Reclaim[12] = <<"stage", Staging>>
      BY <1>1, ReclaimIs
    <3> QED
      BY <2>1, <3>1 DEF Onward, Arg
  <2>4. BackupAt(p, 2) => n = Stage("backing-up", p)
    BY <2>1, BackupIs DEF Onward, Arg
  <2>5. RestoreAt(p, 2) => n = Stage("restoring", p)
    BY <2>1, RestoreIs DEF Onward, Arg
  <2> QED
    BY <2>2, <2>3, <2>4, <2>5
<1>5. CASE Refused(p)
  BY <1>2, <1>5, RefusedKeeps
<1>6. CASE ~Refused(p)
  <2>1. /\ names' = Put(names, n, Fresh) /\ disk' = disk \cup {names'}
        /\ files' = Put(files, Fresh, File(0, FALSE)) /\ GoesOn(p)
        /\ UNCHANGED <<platform, pending, locked, handle, acked, promised, unsettled>>
    BY <1>1, <1>6 DEF Stages, CreateStaging, Posix, Names, GoesOn, history
  <2>2. /\ Alone(p, Tail(todo[p]), handle[p]) /\ handle[p] \in Handle /\ IsSeq(Tail(todo[p]))
        /\ handle'[p] = handle[p] /\ \A q \in Processes \ {p} : todo'[q] = todo[q]
        /\ \A q, f : Holds(q, f) => Holds(q, f)'
    BY <1>2, <2>1, GoesOnAlone
  <2>3. n \in PosixNames \ Public
    BY <1>3, <1>4, PosixNamesAre
  <2> HIDE DEF n
  <2>4. TypeOK'
    <3> DEFINE f == Fresh
    <3>1. f \in Nat \ {0} /\ files' = Put(files, f, File(0, FALSE))
      BY <2>1, FreshIs
    <3> HIDE DEF f
    <3>2. DOMAIN files \subseteq DOMAIN files' /\ DOMAIN files' \subseteq Nat \ {0} /\ files' \in [DOMAIN files' -> FileType]
      BY <3>1, PutFile
    <3> QED
      BY <2>1, <2>2, <3>2, TypeKeeps DEF PosixInv, TypeOK
  <2>5. /\ MapsInv' /\ ApartInv' /\ WholeInv' /\ OrderInv' /\ RevisionInv'
        /\ DOMAIN names' = DOMAIN names \cup {n} /\ names'[n] = Fresh
        /\ \A m \in DOMAIN names : m # n => names'[m] = names[m]
        /\ \A d \in disk : \A m : m \in DOMAIN d => files'[d[m]] = files[d[m]]
    BY <2>1, <2>3, <2>4, FreshSpace
  <2>6. names \in disk
    BY DEF PosixInv, MapsInv
  <2>7. \A m \in {Store, Wal} : /\ m \in DOMAIN names' <=> m \in DOMAIN names
                                /\ m \in DOMAIN names => names'[m] = names[m]
    BY <2>3, <2>5 DEF Public
  <2>8. SettledInv'
    <3>1. \A d \in disk' : d \in disk \/ \A m \in {Store, Wal} \cap DOMAIN names : m \in DOMAIN d /\ d[m] = names[m]
      BY <2>1, <2>7
    <3>2. disk \subseteq disk'
      BY <2>1
    <3> QED
      BY <1>2, <2>1, <2>2, <2>7, <3>1, <3>2, SettledStays
  <2>9. ASSUME NEW q \in Processes \ {p} PROVE NamesKept(q) /\ StageKept(q)
    <3>1. Owns(q) => n # Staging
      <4>1. ReclaimAt(p, 12) => Owns(p)
        BY DEF ReclaimAt, Owned
      <4>2. ~ReclaimAt(p, 12) => n # Staging
        BY <1>3, <1>4, NamesApart
      <4> QED
        BY <4>1, <4>2, OneOwner
    <3>2. n \notin Staged(q)
      BY <1>3, <1>4, NamesApart DEF Staged
    <3>3. n # Store /\ n # Wal
      BY <2>3 DEF Public
    <3>4. NamesKept(q)
      BY <2>5, <2>6, <3>1, <3>3 DEF NamesKept
    <3>5. StageKept(q)
      BY <2>5, <2>6, <3>2 DEF StageKept
    <3> QED
      BY <3>4, <3>5
  <2>10. \A q \in Processes \ {p} : Placed(q)'
    BY <2>2, <2>9, OthersPlaced
  <2>11. Placed(p)'
    <3>1. (Owned(p) => Owned(p)') /\ (LogEmpty => LogEmpty') /\ (Writer(p) => Writer(p)')
      <4>1. Owned(p) => Owned(p)'
        BY <2>1, <2>2, <2>7 DEF Owned, Owns
      <4>2. LogEmpty => LogEmpty'
        BY <2>5, <2>6, <2>7 DEF LogEmpty
      <4> QED
        BY <2>2, <2>7, <4>1, <4>2 DEF Writer
    <3>2. CASE BirthAt(p, 1)
      BY <2>2, <3>2, BirthNext DEF BirthAt
    <3>3. CASE ReclaimAt(p, 12)
      BY <2>2, <3>1, <3>3, ReclaimNext DEF ReclaimAt
    <3>4. CASE RestoreAt(p, 2)
      BY <2>2, <3>4, RestoreNext DEF RestoreAt
    <3>5. CASE BackupAt(p, 2)
      BY <2>2, <3>1, <3>5, BackupNext DEF BackupAt
    <3> QED
      BY <1>3, <3>2, <3>3, <3>4, <3>5
  <2> QED
    BY <2>4, <2>5, <2>8, <2>10, <2>11 DEF PosixInv
<1> QED
  BY <1>5, <1>6

LEMMA CreatesKeep ==
    ASSUME PosixInv, NEW p \in Processes, Creates(p)
    PROVE  PosixInv'
<1>1. ~Windows /\ \A m : Exists(p, m) <=> m \in DOMAIN names
  BY PosixView
<1>2. Is(p, "create") /\ ~Is(p, "sync") /\ ~Unsynced(p)
  BY NotUnsynced DEF Creates
<1>3. LogAt(p, 1)
  BY <1>1, <1>2, Callers DEF PosixInv
<1>4. Arg(p, 1) = Wal
  BY <1>1, <1>3, PlacesOnward, NewLogIs DEF Onward, Arg
<1>5. Wal \notin DOMAIN names /\ Owned(p) /\ Store \in DOMAIN names
  BY <1>3 DEF LogAt, Owned, Owns
<1>6. /\ names' = Put(names, Wal, Fresh) /\ disk' = disk \cup {names'}
      /\ files' = Put(files, Fresh, File(0, FALSE)) /\ GoesOn(p)
      /\ UNCHANGED <<platform, pending, locked, handle, acked, promised, unsettled>>
  BY <1>1, <1>4, <1>5 DEF Creates, CreateNew, Posix, Names, GoesOn, history
<1>7. /\ Alone(p, Tail(todo[p]), handle[p]) /\ handle[p] \in Handle /\ IsSeq(Tail(todo[p]))
      /\ handle'[p] = handle[p] /\ \A q \in Processes \ {p} : todo'[q] = todo[q]
      /\ \A q, f : Holds(q, f) => Holds(q, f)'
  BY <1>2, <1>6, GoesOnAlone
<1>8. TypeOK'
  <2> DEFINE f == Fresh
  <2>1. f \in Nat \ {0} /\ files' = Put(files, f, File(0, FALSE))
    BY <1>6, FreshIs
  <2> HIDE DEF f
  <2>2. DOMAIN files \subseteq DOMAIN files' /\ DOMAIN files' \subseteq Nat \ {0} /\ files' \in [DOMAIN files' -> FileType]
    BY <2>1, PutFile
  <2> QED
    BY <1>6, <1>7, <2>2, TypeKeeps DEF PosixInv, TypeOK
<1>9. /\ MapsInv' /\ ApartInv' /\ WholeInv' /\ OrderInv' /\ RevisionInv'
      /\ DOMAIN names' = DOMAIN names \cup {Wal} /\ names'[Wal] = Fresh /\ files'[Fresh].rev = 0
      /\ \A m \in DOMAIN names : m # Wal => names'[m] = names[m]
      /\ \A d \in disk : \A m : m \in DOMAIN d => files'[d[m]] = files[d[m]]
  BY <1>5, <1>6, <1>8, PosixNamesAre, FreshSpace
<1>10. names \in disk /\ Wal # Store /\ Wal # Staging
  BY NamesApart DEF PosixInv, MapsInv, Public
<1>11. LogAt(p, 2)' /\ Placed(p)'
  <2>1. Owned(p)'
    BY <1>5, <1>7, <1>9, <1>10 DEF Owned, Owns
  <2>2. LogEmpty' /\ Wal \in DOMAIN names'
    BY <1>9 DEF LogEmpty
  <2> QED
    BY <1>3, <1>7, <2>1, <2>2, LogNext DEF LogAt
<1>12. SettledInv'
  <2>1. Unsynced(p)'
    BY <1>9, <1>11 DEF LogAt, Owned, Unsynced
  <2>2. ~Settled(disk', names')
    BY <1>5, <1>6, <1>9, <1>10 DEF Settled
  <2>3. ~Settled(disk, names)'
    BY <2>2 DEF Settled
  <2>4. (\A q \in Processes : ~Is(q, "sync")') => \A q \in Processes : ~Is(q, "sync")
    BY <1>2, <1>7 DEF Is
  <2> QED
    BY <1>6, <2>1, <2>3, <2>4 DEF PosixInv, SettledInv
<1>13. ASSUME NEW q \in Processes \ {p} PROVE NamesKept(q) /\ StageKept(q)
  <2>1. ~Owns(q)
    BY <1>5, OneOwner DEF Owned
  <2>2. Wal \notin Staged(q)
    BY NamesApart DEF Staged, Public
  <2>3. StageKept(q)
    BY <1>9, <1>10, <2>2 DEF StageKept
  <2> QED
    BY <2>1, <2>3 DEF NamesKept
<1>14. \A q \in Processes \ {p} : Placed(q)'
  BY <1>7, <1>13, OthersPlaced
<1> QED
  BY <1>8, <1>9, <1>11, <1>12, <1>14 DEF PosixInv

-----------------------------------------------------------------------------
(* A name is removed. *)

LEMMA RemovedSpace ==
    ASSUME PosixInv, TypeOK', NEW n, n \notin Public \/ (n = Wal /\ LogEmpty), n \in DOMAIN names,
           names' = Without(names, {n}), disk' = disk \cup {names'}, UNCHANGED <<files, acked, promised>>
    PROVE  /\ MapsInv' /\ ApartInv' /\ WholeInv' /\ OrderInv' /\ RevisionInv'
           /\ DOMAIN names' = DOMAIN names \ {n}
           /\ \A m \in DOMAIN names' : names'[m] = names[m]
<1> DEFINE e == names'
<1>1. DOMAIN e = DOMAIN names \ {n} /\ e = [m \in DOMAIN names \ {n} |-> names[m]]
  BY WithoutIs
<1>2. \A m \in DOMAIN e : m \in DOMAIN names /\ e[m] = names[m]
  BY <1>1
<1>3. names \in disk /\ (\A d \in disk : MapOK(d)) /\ IsFiniteSet(disk)
  BY DEF PosixInv, MapsInv
<1>4. disk' = disk \cup {e} /\ names' = e /\ files' = files /\ acked' = acked /\ promised' = promised
  OBVIOUS
<1>5. n # Store /\ n # Copied
  BY NamesApart DEF Public
<1> HIDE DEF e
<1>6. MapsInv'
  <2>1. IsFiniteSet(disk')
    BY <1>3, <1>4, FS_AddElement
  <2>2. /\ DOMAIN e \subseteq PosixNames /\ e \in [DOMAIN e -> DOMAIN files]
        /\ \A k, m \in DOMAIN e : e[k] = e[m] => k = m
    BY <1>1, <1>2, <1>3 DEF MapOK
  <2> QED
    BY <1>3, <1>4, <2>1, <2>2 DEF MapsInv, MapOK
<1>7. ApartInv'
  <2>1. ASSUME NEW d \in disk', NEW k \in DOMAIN e \ Public, NEW m \in Public \cap DOMAIN d
        PROVE  d[m] # e[k]
    <3>1. \E x \in disk : m \in DOMAIN x /\ d[m] = x[m]
      BY <1>2, <1>3, <1>4
    <3> QED
      BY <1>2, <3>1 DEF PosixInv, ApartInv
  <2>2. ASSUME NEW a \in disk', NEW b \in disk', Wal \in DOMAIN a, Store \in DOMAIN b
        PROVE  a[Wal] # b[Store]
    <3>1. \E x \in disk : Store \in DOMAIN x /\ b[Store] = x[Store]
      BY <1>2, <1>3, <1>4, <2>2
    <3>2. \E x \in disk : Wal \in DOMAIN x /\ a[Wal] = x[Wal]
      BY <1>2, <1>3, <1>4, <2>2
    <3> QED
      BY <3>1, <3>2 DEF PosixInv, ApartInv
  <2> QED
    BY <1>4, <2>1, <2>2 DEF ApartInv
<1>8. WholeInv'
  BY <1>2, <1>3, <1>4 DEF PosixInv, WholeInv
<1>9. OrderInv'
  BY <1>1, <1>3, <1>4, <1>5 DEF PosixInv, OrderInv
<1>10. RevisionInv'
  <2>1. RecoveredIn(e, files) = RecoveredIn(names, files)
    <3>1. Store \in DOMAIN e <=> Store \in DOMAIN names
      BY <1>1, <1>5
    <3>2. Store \in DOMAIN names => e[Store] = names[Store]
      BY <1>2, <3>1
    <3>3. LogIn(e, files) = LogIn(names, files)
      <4>1. CASE Wal \in DOMAIN e
        BY <1>2, <4>1 DEF LogIn
      <4>2. CASE Wal \notin DOMAIN e /\ Wal \in DOMAIN names
        <5>1. n = Wal
          BY <1>1, <4>2
        <5>2. LogEmpty
          BY <5>1 DEF Public
        <5> QED
          BY <4>2, <5>2 DEF LogIn, LogEmpty
      <4>3. CASE Wal \notin DOMAIN names
        BY <1>2, <4>3 DEF LogIn
      <4> QED
        BY <4>1, <4>2, <4>3
    <3> QED
      BY <3>1, <3>2, <3>3 DEF RecoveredIn
  <2>2. acked' = RecoveredIn(names', files') /\ promised' <= acked'
    BY <1>4, <2>1, RevisionNow
  <2>3. \A d \in disk' : RecoveredIn(d, files') >= promised'
    BY <1>3, <1>4, <2>1, RevisionNow
  <2>4. ASSUME NEW d \in disk', Store \in DOMAIN d, d[Store] # names'[Store] PROVE files'[d[Store]].rev >= promised'
    <3>1. d \in disk
      BY <1>4, <2>4
    <3>2. Store \in DOMAIN names
      BY <2>4, <3>1 DEF PosixInv, OrderInv
    <3>3. d[Store] # names[Store]
      BY <1>1, <1>4, <1>5, <2>4, <3>2
    <3> QED
      BY <1>4, <2>4, <3>1, <3>3, RevisionNow
  <2> QED
    BY <1>6, <1>8, <2>2, <2>3, <2>4, RevisionKeeps
<1> QED
  BY <1>1, <1>2, <1>4, <1>6, <1>7, <1>8, <1>9, <1>10

\* The place after an unlink that leaves the store and its log alone.
LEMMA UnlinkPlace ==
    ASSUME PosixInv, NEW p \in Processes, Is(p, "unlink"), ~CloseAt(p, 1),
           Alone(p, Tail(todo[p]), handle[p]), UNCHANGED files,
           \A m \in {Store, Wal} : /\ m \in DOMAIN names' <=> m \in DOMAIN names
                                   /\ m \in DOMAIN names => names'[m] = names[m],
           \A f : Holds(p, f) => Holds(p, f)'
    PROVE  Placed(p)'
<1>1. ~Windows
  BY PosixView
<1>2. Sweeping(p) \/ ReclaimAt(p, 8) \/ ReclaimAt(p, 9) \/ ReclaimAt(p, 10) \/ ReclaimAt(p, 11)
  BY <1>1, Callers DEF PosixInv
<1>3. todo'[p] = Tail(todo[p]) /\ handle'[p] = handle[p]
  BY AloneIs
<1>4. (Owned(p) => Owned(p)') /\ (LogEmpty => LogEmpty')
  BY <1>3 DEF Owned, Owns, LogEmpty
<1>5. CASE \E i \in 8 .. 11 : ReclaimAt(p, i)
  <2>1. PICK i \in 8 .. 11 : ReclaimAt(p, i)
    BY <1>5
  <2> QED
    BY <1>4, <2>1, ReclaimNext DEF ReclaimAt
<1>6. CASE Sweeping(p)
  <2> DEFINE t == todo[p]
             S == ToSet(t)
  <2>1. /\ Len(t) >= 2 /\ t[Len(t)] = <<"wal">> /\ t[Len(t) - 1] = <<"sync">>
        /\ \A i \in 1 .. Len(t) - 2 : \E n \in Transient \cup {Anchor} : t[i] = <<"unlink", n>>
        /\ handle[p].wal = Free /\ Owned(p)
    BY <1>6 DEF Sweeping
  <2>2. t \in Seq(S) /\ Len(t) \in Nat
    BY HandleIs DEF IsSeq
  <2>3. t[1][1] = "unlink" /\ t # <<>>
    BY <2>2 DEF Is
  <2>4. Len(t) # 2
    BY <2>1, <2>3
  <2> DEFINE k == Len(t)
             u == Tail(t)
  <2>5. Len(t) = k /\ k \in Nat /\ k >= 3
    <3>1. ASSUME NEW j \in Nat, j >= 2, j # 2 PROVE j >= 3
      BY <3>1
    <3>2. Len(t) \in Nat /\ Len(t) >= 2
      BY <2>1, <2>2
    <3> HIDE DEF t
    <3> QED
      BY <2>4, <3>1, <3>2
  <2> HIDE DEF t, k, S
  <2>6. u \in Seq(S) /\ Len(u) = k - 1 /\ \A i \in 1 .. k - 1 : u[i] = t[i + 1]
    BY <2>2, <2>3, <2>5, HeadTailProperties
  <2> HIDE DEF u
  <2>7. Len(u) >= 2 /\ u[Len(u)] = <<"wal">> /\ u[Len(u) - 1] = <<"sync">>
    <3>1. u[k - 1] = t[k] /\ u[k - 2] = t[k - 1]
      BY <2>5, <2>6
    <3> QED
      BY <2>1, <2>5, <2>6, <3>1
  <2>8. \A i \in 1 .. Len(u) - 2 : \E n \in Transient \cup {Anchor} : u[i] = <<"unlink", n>>
    <3>1. ASSUME NEW i \in 1 .. Len(u) - 2 PROVE \E n \in Transient \cup {Anchor} : u[i] = <<"unlink", n>>
      <4>1. i \in 1 .. k - 1 /\ i + 1 \in 1 .. k - 2
        BY <2>5, <2>6
      <4> QED
        BY <2>1, <2>5, <2>6, <4>1
    <3> QED
      BY <3>1
  <2>9. todo'[p] = u
    BY <1>3 DEF u, t
  <2> QED
    BY <1>3, <1>4, <2>1, <2>7, <2>8, <2>9 DEF Sweeping, Placed
<1> QED
  BY <1>2, <1>5, <1>6

LEMMA NotPublic ==
    \A n \in Transient \cup {Anchor} : n \notin Public
  BY DEF Transient, Public, Stage, Staging, CandidateTmp, Candidate, Temporary, Anchor, Store, Wal, Copied

LEMMA UnlinksKeep ==
    ASSUME PosixInv, NEW p \in Processes, Unlinks(p)
    PROVE  PosixInv'
<1> DEFINE n == Arg(p, 1)
<1>1. ~Windows /\ \A m : Exists(p, m) <=> m \in DOMAIN names
  BY PosixView
<1>2. Is(p, "unlink") /\ ~Is(p, "sync") /\ ~Unsynced(p)
  BY NotUnsynced DEF Unlinks
<1>3. Sweeping(p) \/ ReclaimAt(p, 8) \/ ReclaimAt(p, 9) \/ ReclaimAt(p, 10) \/ ReclaimAt(p, 11) \/ CloseAt(p, 1)
  BY <1>1, <1>2, Callers DEF PosixInv
<1>4. n \notin Public \/ (CloseAt(p, 1) /\ n = Wal)
  <2>1. CASE Sweeping(p)
    <3> DEFINE t == todo[p]
               S == ToSet(t)
    <3>1. /\ Len(t) >= 2 /\ t[Len(t)] = <<"wal">> /\ t[Len(t) - 1] = <<"sync">>
          /\ \A i \in 1 .. Len(t) - 2 : \E m \in Transient \cup {Anchor} : t[i] = <<"unlink", m>>
      BY <2>1 DEF Sweeping
    <3>2. t \in Seq(S) /\ Len(t) \in Nat
      BY HandleIs DEF IsSeq
    <3>3. t[1][1] = "unlink" /\ t # <<>> /\ n = t[1][2]
      BY <1>2, <3>2 DEF Is, Arg
    <3>4. Len(t) # 2
      BY <3>1, <3>3
    <3>5. 1 \in 1 .. Len(t) - 2
      <4>1. ASSUME NEW j \in Nat, j >= 2, j # 2 PROVE 1 \in 1 .. j - 2
        BY <4>1
      <4>2. Len(t) \in Nat /\ Len(t) >= 2
        BY <3>1, <3>2
      <4> HIDE DEF t
      <4> QED
        BY <3>4, <4>1, <4>2
    <3>6. \E m \in Transient \cup {Anchor} : t[1] = <<"unlink", m>>
      BY <3>1, <3>5
    <3>7. n \in Transient \cup {Anchor}
      BY <3>3, <3>6
    <3> QED
      BY <3>7, NotPublic
  <2>2. CASE \E i \in 8 .. 11 : ReclaimAt(p, i)
    <3>1. PICK i \in 8 .. 11 : ReclaimAt(p, i)
      BY <2>2
    <3>2. n = Reclaim[i][2]
      BY <1>1, <3>1, PlacesOnward DEF Onward, Arg
    <3>3. n \in Transient \cup {Anchor}
      BY <1>1, <3>2, ReclaimIs DEF Transient
    <3> QED
      BY <3>3, NotPublic
  <2>3. CASE CloseAt(p, 1)
    <3>1. n = Wal
      BY <1>1, <2>3, PlacesOnward, ClosingIs DEF Onward, Arg
    <3> QED
      BY <2>3, <3>1
  <2> QED
    BY <1>3, <2>1, <2>2, <2>3
<1>5. /\ GoesOn(p) /\ UNCHANGED <<platform, pending, files, locked, handle, acked, promised, unsettled>>
      /\ IF n \in DOMAIN names THEN names' = Without(names, {n}) /\ disk' = disk \cup {names'}
                               ELSE UNCHANGED <<names, disk>>
  BY <1>1 DEF Unlinks, Unlink, Posix, Names, GoesOn, history
<1>6. /\ Alone(p, Tail(todo[p]), handle[p]) /\ handle[p] \in Handle /\ IsSeq(Tail(todo[p]))
      /\ handle'[p] = handle[p] /\ \A q \in Processes \ {p} : todo'[q] = todo[q]
      /\ \A q, f : Holds(q, f) => Holds(q, f)'
  BY <1>2, <1>5, GoesOnAlone
<1>7. TypeOK'
  BY <1>5, <1>6, TypeKeeps DEF PosixInv, TypeOK
<1>8. names \in disk /\ Wal # Store
  BY NamesApart DEF PosixInv, MapsInv
<1>9. CASE n \notin DOMAIN names
  <2>1. ~CloseAt(p, 1)
    BY <1>1, <1>9, PlacesOnward, ClosingIs DEF Onward, Arg, CloseAt
  <2>2. Placed(p)'
    BY <1>2, <1>5, <1>6, <1>9, <2>1, UnlinkPlace
  <2> QED
    BY <1>2, <1>5, <1>6, <1>9, <2>2, QuietKeeps
<1>10. CASE n \in DOMAIN names
  <2> HIDE DEF n
  <2>1. n \notin Public \/ (n = Wal /\ LogEmpty)
    BY <1>4 DEF CloseAt
  <2>2. /\ MapsInv' /\ ApartInv' /\ WholeInv' /\ OrderInv' /\ RevisionInv'
        /\ DOMAIN names' = DOMAIN names \ {n}
        /\ \A m \in DOMAIN names' : names'[m] = names[m]
    BY <1>5, <1>7, <1>10, <2>1, RemovedSpace
  <2>3. ASSUME NEW q \in Processes \ {p} PROVE NamesKept(q) /\ StageKept(q)
    <3>1. Owns(p)
      BY <1>3 DEF Sweeping, ReclaimAt, CloseAt, Owned
    <3>2. ~Owns(q)
      BY <3>1, OneOwner
    <3>3. StageKept(q)
      BY <1>5, <2>2 DEF StageKept
    <3> QED
      BY <3>2, <3>3 DEF NamesKept
  <2>4. \A q \in Processes \ {p} : Placed(q)'
    BY <1>6, <2>3, OthersPlaced
  <2>5. SettledInv' /\ Placed(p)'
    <3>1. CASE n \notin Public
      <4>1. \A m \in {Store, Wal} : /\ m \in DOMAIN names' <=> m \in DOMAIN names
                                    /\ m \in DOMAIN names => names'[m] = names[m]
        BY <2>2, <3>1 DEF Public
      <4>2. ~CloseAt(p, 1)
        <5>1. CloseAt(p, 1) => n = Wal
          BY <1>1, PlacesOnward, ClosingIs DEF Onward, Arg, n
        <5> QED
          BY <3>1, <5>1 DEF Public
      <4>3. Placed(p)'
        BY <1>2, <1>5, <1>6, <4>1, <4>2, UnlinkPlace
      <4>4. \A d \in disk' : d \in disk \/ \A m \in {Store, Wal} \cap DOMAIN names : m \in DOMAIN d /\ d[m] = names[m]
        BY <1>5, <1>10, <4>1
      <4>5. disk \subseteq disk'
        BY <1>5, <1>10
      <4>6. SettledInv'
        BY <1>2, <1>5, <1>6, <4>1, <4>4, <4>5, SettledStays
      <4> QED
        BY <4>3, <4>6
    <3>2. CASE CloseAt(p, 1) /\ n = Wal
      <4>1. Placed(p)'
        BY <1>6, <3>2, CloseNext
      <4>2. Owned(p) /\ Wal \in DOMAIN names
        BY <3>2 DEF CloseAt
      <4>3. \A q \in Processes : Unsynced(q) => q = p
        BY <4>2, OneOwner DEF Unsynced, Owned
      <4>4. ~unsettled => (Settled(disk, names) /\ promised = acked)
        BY <1>2, <4>2, <4>3 DEF PosixInv, SettledInv
      <4>5. Wal \notin DOMAIN names'
        BY <2>2, <3>2
      <4> QED
        BY <1>5, <4>1, <4>4, <4>5 DEF SettledInv
    <3> QED
      BY <1>4, <3>1, <3>2
  <2> QED
    BY <1>7, <2>2, <2>4, <2>5 DEF PosixInv
<1> QED
  BY <1>9, <1>10

-----------------------------------------------------------------------------
(* What is staged gets its name. *)

LEMMA MovedSpace ==
    ASSUME PosixInv, NEW s \in DOMAIN names \ Public, NEW t \in {Store, Copied}, files[names[s]].whole,
           t = Store => Wal \notin DOMAIN names \/ Store \in DOMAIN names,
           names' = Moves(names, names[s], s, t), disk' = disk \cup {names'}, UNCHANGED files
    PROVE  /\ MapsInv' /\ ApartInv' /\ WholeInv' /\ OrderInv'
           /\ DOMAIN names' = (DOMAIN names \ {s}) \cup {t} /\ names'[t] = names[s]
           /\ \A m \in DOMAIN names : m \notin {s, t} => names'[m] = names[m]
<1> DEFINE e == names'
           f == names[s]
<1>1. names' = Moves(names, f, s, t) /\ s # t
  BY DEF Public
<1> HIDE DEF f
<1>2. /\ DOMAIN e = (DOMAIN names \ {s}) \cup {t} /\ e[t] = f
      /\ \A m \in DOMAIN names : m \notin {s, t} => e[m] = names[m]
      /\ e = [m \in (DOMAIN names \ {s}) \cup {t} |-> IF m = t THEN f ELSE names[m]]
  <2>1. Without(names, {s}) = [m \in DOMAIN names \ {s} |-> names[m]]
    BY WithoutIs
  <2>2. e = [m \in (DOMAIN names \ {s}) \cup {t} |-> IF m = t THEN f ELSE names[m]]
    BY <1>1, <2>1 DEF Moves, Put
  <2> QED
    BY <1>1, <2>2
<1>3. names \in disk /\ (\A d \in disk : MapOK(d)) /\ IsFiniteSet(disk)
  BY DEF PosixInv, MapsInv
<1>4. disk' = disk \cup {e} /\ names' = e /\ files' = files
  OBVIOUS
<1>5. /\ f \in DOMAIN files /\ files[f].whole
      /\ \A d \in disk : \A m \in Public \cap DOMAIN d : d[m] # f
      /\ \A m \in DOMAIN names : m # s => names[m] # f
  BY StagedFile DEF f
<1> HIDE DEF e
<1>6. MapsInv'
  <2>1. IsFiniteSet(disk')
    BY <1>3, <1>4, FS_AddElement
  <2>2. DOMAIN e \subseteq PosixNames
    BY <1>2, <1>3, PosixNamesAre DEF MapOK
  <2>3. \A m \in DOMAIN e : e[m] \in DOMAIN files
    BY <1>2, <1>3, <1>5 DEF MapOK
  <2>4. \A k, m \in DOMAIN e : e[k] = e[m] => k = m
    <3>1. \A k, m \in DOMAIN names : names[k] = names[m] => k = m
      BY <1>3 DEF MapOK
    <3> QED
      BY <1>2, <1>5, <3>1
  <2>5. e \in [DOMAIN e -> DOMAIN files]
    BY <1>2, <2>3
  <2> QED
    BY <1>3, <1>4, <2>1, <2>2, <2>4, <2>5 DEF MapsInv, MapOK
<1>7. ApartInv'
  <2>1. ASSUME NEW d \in disk', NEW k \in DOMAIN e \ Public, NEW m \in Public \cap DOMAIN d
        PROVE  d[m] # e[k]
    <3>1. k \in DOMAIN names \ Public /\ k # s /\ e[k] = names[k] /\ names[k] # f
      BY <1>2, <1>5 DEF Public
    <3>2. CASE d \in disk
      BY <3>1, <3>2 DEF PosixInv, ApartInv
    <3>3. CASE d = e /\ m = t
      BY <1>2, <3>1, <3>3
    <3>4. CASE d = e /\ m # t
      <4>1. m \in Public \cap DOMAIN names /\ d[m] = names[m]
        BY <1>2, <3>4
      <4> QED
        BY <1>3, <3>1, <4>1 DEF PosixInv, ApartInv
    <3> QED
      BY <1>4, <3>2, <3>3, <3>4
  <2>2. ASSUME NEW a \in disk', NEW b \in disk', Wal \in DOMAIN a, Store \in DOMAIN b
        PROVE  a[Wal] # b[Store]
    <3>1. \E x \in disk : Wal \in DOMAIN x /\ a[Wal] = x[Wal]
      <4>1. s # Wal /\ t # Wal
        BY NamesApart DEF Public
      <4> QED
        BY <1>2, <1>3, <1>4, <2>2, <4>1
    <3>2. a[Wal] # f
      BY <1>5, <3>1 DEF Public
    <3>3. b[Store] = f \/ \E x \in disk : Store \in DOMAIN x /\ b[Store] = x[Store]
      BY <1>2, <1>3, <1>4, <2>2
    <3> QED
      BY <3>1, <3>2, <3>3 DEF PosixInv, ApartInv
  <2> QED
    BY <1>4, <2>1, <2>2 DEF ApartInv
<1>8. WholeInv'
  <2>1. ASSUME NEW d \in disk', NEW m \in {Store, Copied} \cap DOMAIN d PROVE files[d[m]].whole
    <3>1. d[m] = f \/ \E x \in disk : m \in DOMAIN x /\ d[m] = x[m]
      BY <1>2, <1>3, <1>4
    <3> QED
      BY <1>5, <3>1 DEF PosixInv, WholeInv
  <2> QED
    BY <1>4, <2>1 DEF WholeInv
<1>9. OrderInv'
  <2>1. OrderInv /\ s # Store
    BY DEF PosixInv, Public
  <2>2. \A d \in disk' : Wal \in DOMAIN d => Store \in DOMAIN d
    BY <1>2, <1>3, <1>4, <2>1, NamesApart DEF OrderInv
  <2>3. \A d \in disk' : Store \in DOMAIN d => Store \in DOMAIN e
    BY <1>2, <1>3, <1>4, <2>1 DEF OrderInv
  <2> QED
    BY <1>4, <2>2, <2>3 DEF OrderInv
<1> QED
  BY <1>2, <1>4, <1>6, <1>7, <1>8, <1>9 DEF f

\* A store of its own, where no disk has one.
LEMMA StoreInstalled ==
    ASSUME PosixInv, NEW s \in DOMAIN names \ Public, files[names[s]].whole, Store \notin DOMAIN names,
           names' = Moves(names, names[s], s, Store), disk' = disk \cup {names'}, UNCHANGED files,
           acked' = Max({acked, Recovered(names')}),
           promised' = IF Settled(disk', names') THEN acked' ELSE promised
    PROVE  /\ acked' \in Nat /\ promised' = 0 /\ ~Settled(disk', names') /\ Wal \notin DOMAIN names'
           /\ TypeOK' => RevisionInv'
<1>1. /\ MapsInv' /\ ApartInv' /\ WholeInv' /\ OrderInv'
      /\ DOMAIN names' = (DOMAIN names \ {s}) \cup {Store} /\ names'[Store] = names[s]
  BY MovedSpace DEF PosixInv, MapsInv, OrderInv
<1>2. names \in disk /\ \A d \in disk : Store \notin DOMAIN d /\ Wal \notin DOMAIN d
  BY DEF PosixInv, MapsInv, OrderInv
<1>3. acked = 0 /\ promised = 0
  <2>1. RecoveredIn(names, files) = 0
    BY DEF RecoveredIn
  <2>2. acked = 0 /\ promised <= acked /\ promised \in Nat
    BY <2>1, RevisionNow
  <2> QED
    BY <2>2
<1>4. ~Settled(disk', names')
  BY <1>1, <1>2 DEF Settled
<1>5. Wal \notin DOMAIN names'
  BY <1>1, <1>2, NamesApart
<1>6. Recovered(names') = RecoveredIn(names', files) /\ RecoveredIn(names', files) \in Nat
  <2>1. Sound(names', files)
    <3>1. Anchor \notin DOMAIN names'
      BY <1>1, PosixNamesAre DEF MapsInv, MapOK
    <3>2. \A n \in DOMAIN names' : names'[n] \in DOMAIN files
      BY <1>1 DEF MapsInv, MapOK
    <3>3. \A n \in DOMAIN names' : files[names'[n]].rev \in Nat
      BY <3>2 DEF PosixInv, TypeOK, FileType
    <3> QED
      BY <1>1, <3>1, <3>3 DEF Sound
  <2>2. RecoveredIn(names', files) \in Nat
    BY <2>1 DEF Sound, RecoveredIn, LogIn
  <2> QED
    BY <2>1, <2>2, RecoveredIs
<1>7. acked' = RecoveredIn(names', files) /\ acked' \in Nat
  BY <1>3, <1>6, MaxOfTwo
<1>8. promised' = 0
  BY <1>3, <1>4
<1>9. ASSUME TypeOK' PROVE RevisionInv'
  <2>1. RecoveredIn(names', files') = RecoveredIn(names', files)
    BY DEF RecoveredIn, LogIn
  <2>2. \A d \in disk : RecoveredIn(d, files') = 0
    BY <1>2 DEF RecoveredIn
  <2>3. \A d \in disk' : Store \in DOMAIN d => d = names'
    BY <1>2
  <2>4. \A d \in disk' : RecoveredIn(d, files') >= promised'
    BY <1>7, <1>8, <2>1, <2>2
  <2>5. \A d \in disk' : Store \in DOMAIN d /\ d[Store] # names'[Store] => files'[d[Store]].rev >= promised'
    BY <2>3
  <2>6. acked' = RecoveredIn(names', files') /\ promised' <= acked'
    BY <1>7, <1>8, <2>1
  <2> QED
    BY <1>1, <1>9, <2>4, <2>5, <2>6, RevisionKeeps
<1> QED
  BY <1>4, <1>5, <1>7, <1>8, <1>9

\* A disk with the names of a store and its log has its revision.
LEMMA SettledRevision ==
    ASSUME PosixInv, Settled(disk, names), Store \in DOMAIN names
    PROVE  \A d \in disk : RecoveredIn(d, files) >= acked /\ Store \in DOMAIN d /\ d[Store] = names[Store]
<1>1. ASSUME NEW d \in disk PROVE RecoveredIn(d, files) >= acked /\ Store \in DOMAIN d /\ d[Store] = names[Store]
  <2>1. /\ Store \in DOMAIN d /\ d[Store] = names[Store]
        /\ Wal \in DOMAIN names => Wal \in DOMAIN d /\ d[Wal] = names[Wal]
    BY <1>1 DEF Settled
  <2>2. LogIn(d, files) >= LogIn(names, files)
    <3>1. LogIn(d, files) \in Nat
      BY RevisionNow
    <3> QED
      BY <2>1, <3>1 DEF LogIn
  <2>3. files[names[Store]].rev \in Nat /\ LogIn(d, files) \in Nat /\ LogIn(names, files) \in Nat
    BY RevisionNow DEF PosixInv, TypeOK, MapsInv, MapOK, FileType
  <2>4. acked = RecoveredIn(names, files)
    BY RevisionNow
  <2> QED
    BY <2>1, <2>2, <2>3, <2>4 DEF RecoveredIn
<1> QED
  BY <1>1

LEMMA AtSync ==
    ASSUME ~Windows, NEW p, todo'[p] = From(BirthOpen(p), 5) \/ todo'[p] = From(RestoreFile(p), 6)
                            \/ todo'[p] = From(Backup(p), 8) \/ todo'[p] = From(Reclaim, 19)
    PROVE  Is(p, "sync")'
<1>1. ASSUME NEW s, IsSeq(s), NEW i \in 1 .. Len(s), s[i] = <<"sync">>
      PROVE  From(s, i) # <<>> /\ Head(From(s, i))[1] = "sync"
  BY <1>1, NextCall
<1>2. From(BirthOpen(p), 5) # <<>> /\ Head(From(BirthOpen(p), 5))[1] = "sync"
  <2>1. IsSeq(BirthOpen(p)) /\ 5 \in 1 .. Len(BirthOpen(p)) /\ BirthOpen(p)[5] = <<"sync">>
    BY BirthOpenIs
  <2> QED
    BY <1>1, <2>1
<1>3. From(RestoreFile(p), 6) # <<>> /\ Head(From(RestoreFile(p), 6))[1] = "sync"
  <2>1. IsSeq(RestoreFile(p)) /\ 6 \in 1 .. Len(RestoreFile(p)) /\ RestoreFile(p)[6] = <<"sync">>
    BY RestoreIs
  <2> QED
    BY <1>1, <2>1
<1>4. From(Backup(p), 8) # <<>> /\ Head(From(Backup(p), 8))[1] = "sync"
  <2>1. IsSeq(Backup(p)) /\ 8 \in 1 .. Len(Backup(p)) /\ Backup(p)[8] = <<"sync">>
    BY BackupIs
  <2> QED
    BY <1>1, <2>1
<1>5. From(Reclaim, 19) # <<>> /\ Head(From(Reclaim, 19))[1] = "sync"
  <2>1. IsSeq(Reclaim) /\ Len(Reclaim) = 21 /\ Reclaim[19] = <<"sync">>
    BY ReclaimIs
  <2>2. 19 \in 1 .. Len(Reclaim)
    BY <2>1
  <2> QED
    BY <1>1, <2>1, <2>2
<1> QED
  BY <1>2, <1>3, <1>4, <1>5 DEF Is

LEMMA InstallsKeep ==
    ASSUME PosixInv, NEW p \in Processes, Installs(p)
    PROVE  PosixInv'
<1> DEFINE s == Arg(p, 1)
           t == Arg(p, 2)
<1>1. ~Windows /\ View(p) = names /\ \A m : Exists(p, m) <=> m \in DOMAIN names
  BY PosixView
<1>2. Is(p, "install") /\ ~Is(p, "sync") /\ ~Unsynced(p)
  BY NotUnsynced DEF Installs
<1>3. BirthAt(p, 4) \/ RestoreAt(p, 5) \/ BackupAt(p, 7)
  BY <1>1, <1>2, Callers DEF PosixInv
<1>4. /\ BirthAt(p, 4) => s = Stage("creating", p) /\ t = Store /\ Onward(p, BirthOpen(p), 4)
      /\ RestoreAt(p, 5) => s = Stage("restoring", p) /\ t = Store /\ Onward(p, RestoreFile(p), 5)
      /\ BackupAt(p, 7) => s = Stage("backing-up", p) /\ t = Copied /\ Onward(p, Backup(p), 7)
  <2>1. /\ BirthAt(p, 4) => Onward(p, BirthOpen(p), 4)
        /\ RestoreAt(p, 5) => Onward(p, RestoreFile(p), 5)
        /\ BackupAt(p, 7) => Onward(p, Backup(p), 7)
    BY <1>1, PlacesOnward
  <2> QED
    BY <1>1, <2>1, BirthOpenIs, BackupIs, RestoreIs DEF Onward, Arg
<1>5. CASE Refused(p)
  BY <1>2, <1>5, RefusedKeeps
<1>6. CASE ~Refused(p)
  <2>1. /\ s \in DOMAIN names /\ t \notin DOMAIN names
        /\ names' = Moves(names, names[s], s, t) /\ disk' = disk \cup {names'} /\ GoesOn(p)
        /\ acked' = Max({acked, Recovered(names')})
        /\ promised' = IF Settled(disk', names') THEN acked' ELSE promised
        /\ UNCHANGED <<platform, files, pending, locked, handle, unsettled>>
    BY <1>1, <1>6 DEF Installs, RenameNoreplace, Posix
  <2>2. /\ Alone(p, Tail(todo[p]), handle[p]) /\ handle[p] \in Handle /\ IsSeq(Tail(todo[p]))
        /\ todo'[p] = Tail(todo[p]) /\ handle'[p] = handle[p]
        /\ \A q \in Processes \ {p} : todo'[q] = todo[q]
        /\ \A q, f : Holds(q, f) => Holds(q, f)'
    BY <1>2, <2>1, GoesOnAlone
  <2>3. s \in DOMAIN names \ Public /\ t \in {Store, Copied} /\ s \in Staged(p) /\ s # Staging
    BY <1>3, <1>4, <2>1, PosixNamesAre, NamesApart DEF Staged
  <2>4. files[names[s]].whole
    BY <1>3, <1>4, <2>1 DEF BirthAt, RestoreAt, BackupAt, WholeIf
  <2>5. Is(p, "sync")'
    <3>1. BirthAt(p, 4) => todo'[p] = From(BirthOpen(p), 5)
      BY <1>4, <2>2 DEF Onward
    <3>2. RestoreAt(p, 5) => todo'[p] = From(RestoreFile(p), 6)
      BY <1>4, <2>2 DEF Onward
    <3>3. BackupAt(p, 7) => todo'[p] = From(Backup(p), 8)
      BY <1>4, <2>2 DEF Onward
    <3> QED
      BY <1>1, <1>3, <3>1, <3>2, <3>3, AtSync
  <2> HIDE DEF s, t
  <2>6. names \in disk /\ (Wal \in DOMAIN names => Store \in DOMAIN names)
    BY DEF PosixInv, MapsInv, OrderInv
  <2>7. /\ MapsInv' /\ ApartInv' /\ WholeInv' /\ OrderInv'
        /\ DOMAIN names' = (DOMAIN names \ {s}) \cup {t} /\ names'[t] = names[s]
        /\ \A m \in DOMAIN names : m \notin {s, t} => names'[m] = names[m]
    BY <2>1, <2>3, <2>4, <2>6, MovedSpace
  <2>8. ASSUME NEW q \in Processes \ {p} PROVE NamesKept(q) /\ StageKept(q)
    <3>1. t = Store => ~Owns(q)
      BY <2>1 DEF Owns
    <3>2. \A n \in {Store, Wal, Staging} : n # s /\ (t = Copied => n # t)
      BY <2>3, NamesApart DEF Public
    <3>3. NamesKept(q)
      BY <2>1, <2>3, <2>7, <3>1, <3>2 DEF NamesKept
    <3>4. s \notin Staged(q) /\ t \notin Staged(q)
      BY <2>3, NamesApart DEF Staged, Public
    <3>5. StageKept(q)
      BY <2>1, <2>7, <3>4 DEF StageKept
    <3> QED
      BY <3>3, <3>5
  <2>9. \A q \in Processes \ {p} : Placed(q)'
    BY <2>2, <2>8, OthersPlaced
  <2>10. CASE t = Store
    <3>1. /\ acked' \in Nat /\ promised' = 0 /\ ~Settled(disk', names') /\ Wal \notin DOMAIN names'
          /\ TypeOK' => RevisionInv'
      BY <2>1, <2>3, <2>4, <2>10, StoreInstalled
    <3>2. TypeOK'
      BY <2>1, <2>2, <3>1, TypeKeeps DEF PosixInv, TypeOK
    <3>3. SettledInv'
      BY <2>5, <3>1 DEF SettledInv, Settled
    <3>4. Placed(p)'
      <4>1. CASE BirthAt(p, 4)
        BY <2>2, <4>1, BirthNext DEF BirthAt
      <4>2. CASE RestoreAt(p, 5)
        BY <2>2, <4>2, RestoreNext DEF RestoreAt
      <4> QED
        BY <1>3, <1>4, <2>10, <4>1, <4>2, NamesApart
    <3> QED
      BY <2>7, <2>9, <3>1, <3>2, <3>3, <3>4 DEF PosixInv
  <2>11. CASE t = Copied
    <3>0. BackupAt(p, 7) /\ Owned(p) /\ Writer(p) /\ Store \in DOMAIN names
      BY <1>3, <1>4, <2>11, NamesApart DEF BackupAt, Writer, Owned, Owns
    <3>1. \A m \in {Store, Wal} : /\ m \in DOMAIN names' <=> m \in DOMAIN names
                                  /\ m \in DOMAIN names => names'[m] = names[m]
      BY <2>3, <2>7, <2>11, NamesApart DEF Public
    <3>2. Settled(disk', names') <=> Settled(disk, names)
      BY <2>1, <3>1 DEF Settled
    <3>3. RecoveredIn(names', files) = RecoveredIn(names, files)
      BY <3>1 DEF RecoveredIn, LogIn
    <3>4. Recovered(names') = acked /\ acked \in Nat
      <4>1. Anchor \notin DOMAIN names'
        BY <2>7, PosixNamesAre DEF MapsInv, MapOK
      <4>2. \A n \in DOMAIN names' : names'[n] \in DOMAIN files
        BY <2>1, <2>7 DEF MapsInv, MapOK
      <4>3. \A n \in DOMAIN names' : files[names'[n]].rev \in Nat
        BY <4>2 DEF PosixInv, TypeOK, FileType
      <4>4. Sound(names', files)
        BY <2>1, <2>7, <4>1, <4>3 DEF Sound, WholeInv, MapsInv
      <4> QED
        BY <3>3, <4>4, RecoveredIs, RevisionNow
    <3>5. acked' = acked
      BY <2>1, <3>4, MaxOfTwo
    <3>6. promised' = IF Settled(disk, names) THEN acked ELSE promised
      BY <2>1, <3>2, <3>5
    <3>7. TypeOK'
      BY <2>1, <2>2, <3>4, <3>5, <3>6, TypeKeeps DEF PosixInv, TypeOK
    <3>8. RevisionInv'
      <4>1. \A d \in disk : RecoveredIn(d, files') = RecoveredIn(d, files)
        BY <2>1 DEF RecoveredIn, LogIn
      <4>2. RecoveredIn(names', files') = acked
        <5>1. RecoveredIn(names', files') = RecoveredIn(names', files)
          BY <2>1 DEF RecoveredIn, LogIn
        <5> QED
          BY <3>3, <5>1, RevisionNow
      <4>3. promised' <= acked /\ promised' \in Nat
        BY <3>6, RevisionNow
      <4>4. \A d \in disk : RecoveredIn(d, files) >= promised'
        BY <3>0, <3>6, RevisionNow, SettledRevision
      <4>5. ASSUME NEW d \in disk', Store \in DOMAIN d, d[Store] # names'[Store] PROVE files'[d[Store]].rev >= promised'
        <5>1. d \in disk /\ d[Store] # names[Store]
          BY <2>1, <3>0, <3>1, <4>5
        <5>2. ~Settled(disk, names)
          BY <3>0, <5>1, SettledRevision
        <5> QED
          BY <2>1, <3>6, <4>5, <5>1, <5>2, RevisionNow
      <4>6. \A d \in disk' : RecoveredIn(d, files') >= promised'
        BY <2>1, <4>1, <4>2, <4>3, <4>4
      <4> QED
        BY <2>7, <3>5, <3>7, <4>2, <4>3, <4>5, <4>6, RevisionKeeps
    <3>9. SettledInv'
      <4>1. Settled(disk, names)' <=> Settled(disk', names')
        BY DEF Settled
      <4>2. ASSUME NEW q \in Processes, Unsynced(q) PROVE Unsynced(q)'
        <5>1. q # p
          BY <1>2, <4>2
        <5>2. Owns(q)'
          BY <2>2, <3>0, <3>1, <4>2 DEF Unsynced, Owns
        <5>3. (Is(q, "sync") <=> Is(q, "sync")') /\ (At(q, NewLog, 2) <=> At(q, NewLog, 2)')
          BY <2>2, <5>1 DEF Is, At, From, NewLog
        <5> QED
          BY <3>1, <4>2, <5>2, <5>3 DEF Unsynced
      <4>3. SettledInv /\ unsettled' = unsettled
        BY <2>1 DEF PosixInv
      <4>4. Wal \in DOMAIN names' <=> Wal \in DOMAIN names
        BY <3>1
      <4>5. Settled(disk, names)' => promised' = acked'
        BY <3>2, <3>5, <3>6, <4>1
      <4>6. ~unsettled' => (Wal \in DOMAIN names' => Settled(disk, names)' \/ \E q \in Processes : Unsynced(q)')
        BY <3>2, <4>1, <4>2, <4>3, <4>4 DEF SettledInv
      <4> QED
        BY <2>5, <4>5, <4>6 DEF SettledInv
    <3>10. Placed(p)'
      <4>1. Writer(p)'
        BY <2>2, <3>0, <3>1 DEF Writer, Owned, Owns
      <4> QED
        BY <2>2, <3>0, <4>1, BackupNext
    <3> QED
      BY <2>7, <2>9, <3>7, <3>8, <3>9, <3>10 DEF PosixInv
  <2> QED
    BY <2>3, <2>10, <2>11
<1> QED
  BY <1>5, <1>6

\* The compacted copy takes the place of the store.
LEMMA ReplacesKeep ==
    ASSUME PosixInv, NEW p \in Processes, Replaces(p)
    PROVE  PosixInv'
<1>1. ~Windows /\ View(p) = names
  BY PosixView
<1>2. Is(p, "replace") /\ ~Is(p, "sync") /\ ~Unsynced(p)
  BY NotUnsynced DEF Replaces
<1>3. ReclaimAt(p, 18) /\ Onward(p, Reclaim, 18)
  BY <1>1, <1>2, Callers, PlacesOnward DEF PosixInv
<1>4. Arg(p, 1) = Staging /\ Arg(p, 2) = Store
  <2>1. Reclaim[18] = <<"replace", Staging, Store>>
    BY <1>1, ReclaimIs
  <2> QED
    BY <1>3, <2>1 DEF Onward, Arg
<1>5. /\ Staging \in DOMAIN names /\ Store \in DOMAIN names /\ Owns(p) /\ handle[p].wal = Free
      /\ Holds(p, names[Staging]) /\ LogEmpty /\ files[names[Staging]].whole
      /\ files[names[Staging]].rev = files[names[Store]].rev
  BY <1>3 DEF ReclaimAt, Owned, Owns, Compacted
<1>6. /\ names' = Moves(names, names[Staging], Staging, Store) /\ disk' = disk \cup {names'} /\ GoesOn(p)
      /\ UNCHANGED <<platform, files, pending, locked, handle, acked, promised, unsettled>>
  <2>1. unsettled \in BOOLEAN
    BY DEF PosixInv, TypeOK
  <2> QED
    BY <1>1, <1>4, <2>1 DEF Replaces, RenameReplaceOpen, Posix, Windows
<1>7. /\ Alone(p, Tail(todo[p]), handle[p]) /\ handle[p] \in Handle /\ IsSeq(Tail(todo[p]))
      /\ todo'[p] = Tail(todo[p]) /\ handle'[p] = handle[p]
      /\ \A q \in Processes \ {p} : todo'[q] = todo[q]
      /\ \A q, f : Holds(q, f) => Holds(q, f)'
  BY <1>2, <1>6, GoesOnAlone
<1>8. Staging \in DOMAIN names \ Public /\ names \in disk
  BY <1>5, PosixNamesAre DEF PosixInv, MapsInv
<1>9. /\ MapsInv' /\ ApartInv' /\ WholeInv' /\ OrderInv'
      /\ DOMAIN names' = (DOMAIN names \ {Staging}) \cup {Store} /\ names'[Store] = names[Staging]
      /\ \A m \in DOMAIN names : m \notin {Staging, Store} => names'[m] = names[m]
  BY <1>5, <1>6, <1>8, MovedSpace
<1>10. TypeOK'
  BY <1>6, <1>7, TypeKeeps DEF PosixInv, TypeOK
<1>11. Wal \in DOMAIN names' => Wal \in DOMAIN names /\ names'[Wal] = names[Wal]
  BY <1>8, <1>9, NamesApart DEF Public
<1>12. names[Staging] # names[Store]
  BY <1>5, <1>8, StagedFile, NamesApart DEF Public
<1>13. RevisionInv'
  <2>1. files[names[Store]].rev \in Nat
    BY <1>5 DEF PosixInv, TypeOK, MapsInv, MapOK, FileType
  <2>2. RecoveredIn(names, files) = files[names[Store]].rev
    BY <1>5, <2>1 DEF RecoveredIn, LogIn, LogEmpty
  <2>3. RecoveredIn(names', files') = files[names[Store]].rev
    <3>1. LogIn(names', files') = 0
      BY <1>5, <1>6, <1>11 DEF LogIn, LogEmpty
    <3> QED
      BY <1>5, <1>6, <1>9, <2>1, <3>1 DEF RecoveredIn
  <2>4. \A d \in disk : RecoveredIn(d, files') = RecoveredIn(d, files)
    BY <1>6 DEF RecoveredIn, LogIn
  <2>5. acked' = RecoveredIn(names', files') /\ promised' <= acked'
    BY <1>6, <2>2, <2>3, RevisionNow
  <2>6. \A d \in disk' : RecoveredIn(d, files') >= promised'
    BY <1>6, <1>8, <2>2, <2>3, <2>4, RevisionNow
  <2>7. ASSUME NEW d \in disk', Store \in DOMAIN d, d[Store] # names'[Store] PROVE files'[d[Store]].rev >= promised'
    <3>1. d \in disk
      BY <1>6, <2>7
    <3>2. CASE d[Store] = names[Store]
      BY <1>6, <2>2, <3>2, RevisionNow
    <3>3. CASE d[Store] # names[Store]
      BY <1>6, <2>7, <3>1, <3>3, RevisionNow
    <3> QED
      BY <3>2, <3>3
  <2> QED
    BY <1>9, <1>10, <2>5, <2>6, <2>7, RevisionKeeps
<1>14. Owns(p)'
  BY <1>5, <1>7, <1>9 DEF Owns, Holds
<1>15. SettledInv'
  <2>1. Is(p, "sync")'
    <3>1. todo'[p] = From(Reclaim, 19)
      BY <1>3, <1>7 DEF Onward
    <3> QED
      BY <1>1, <3>1, AtSync
  <2>2. ~Settled(disk, names)'
    <3>1. ~Settled(disk', names')
      BY <1>5, <1>6, <1>8, <1>9, <1>12 DEF Settled
    <3> QED
      BY <3>1 DEF Settled
  <2>3. Unsynced(p)'
    BY <1>14, <2>1 DEF Unsynced
  <2> QED
    BY <2>1, <2>2, <2>3 DEF SettledInv
<1>16. Placed(p)'
  BY <1>3, <1>5, <1>7, <1>14, ReclaimNext
<1>17. ASSUME NEW q \in Processes \ {p} PROVE NamesKept(q) /\ StageKept(q)
  <2>1. ~Owns(q)
    BY <1>5, OneOwner
  <2>2. Staging \notin Staged(q) /\ Store \notin Staged(q)
    BY NamesApart DEF Staged, Public
  <2>3. StageKept(q)
    BY <1>6, <1>9, <2>2 DEF StageKept
  <2> QED
    BY <2>1, <2>3 DEF NamesKept
<1>18. \A q \in Processes \ {p} : Placed(q)'
  BY <1>7, <1>17, OthersPlaced
<1> QED
  BY <1>9, <1>10, <1>13, <1>15, <1>16, <1>18 DEF PosixInv

-----------------------------------------------------------------------------
(* A writer at work. *)

LEMMA ReadyIs ==
    ASSUME PosixInv, NEW p \in Processes, Ready(p)
    PROVE  /\ Writer(p) /\ todo[p] = <<>> /\ ~Is(p, "sync") /\ ~Unsynced(p)
           /\ Store \in DOMAIN names /\ Wal \in DOMAIN names
           /\ handle[p].store = names[Store] /\ handle[p].wal = names[Wal]
           /\ names[Store] \in DOMAIN files /\ names[Wal] \in DOMAIN files
           /\ Rev(p) = acked /\ RecoveredIn(names, files) = acked /\ acked \in Nat
           /\ \A d \in disk : Store \in DOMAIN d => d[Store] # names[Wal]
           /\ \A d \in disk : Wal \in DOMAIN d => d[Wal] # names[Store]
<1>1. Placed(p) /\ ~Windows /\ todo[p] = <<>>
  BY PosixView DEF PosixInv, Ready
<1>2. Writer(p)
  <2>1. \A c : ~Is(p, c)
    BY <1>1 DEF Is
  <2>2. /\ \A s : \A i \in 1 .. Len(s) : Onward(p, s, i) => todo[p] # <<>>
        /\ Sweeping(p) => todo[p] # <<>>
    BY DEF Onward, Sweeping
  <2>3. ~Idle(p)
    BY DEF Ready, Idle, Nobody
  <2> QED
    BY <1>1, <2>1, <2>2, <2>3, PlacesOnward DEF Placed, Onward
<1>3. ~Is(p, "sync") /\ ~Unsynced(p)
  <2>1. At(p, NewLog, 2) => todo[p] # <<>>
    <3>1. IsSeq(NewLog) /\ 2 \in 1 .. Len(NewLog)
      BY NewLogIs
    <3> QED
      BY <3>1, NextCall DEF At
  <2> QED
    BY <1>1, <2>1 DEF Is, Unsynced
<1>4. /\ Store \in DOMAIN names /\ Wal \in DOMAIN names
      /\ handle[p].store = names[Store] /\ handle[p].wal = names[Wal]
  BY <1>2 DEF Writer, Owned, Owns
<1>5. /\ names[Store] \in DOMAIN files /\ names[Wal] \in DOMAIN files
      /\ files[names[Store]].rev \in Nat /\ files[names[Wal]].rev \in Nat
  BY <1>4 DEF PosixInv, TypeOK, MapsInv, MapOK, FileType
<1>6. /\ \A d \in disk : Store \in DOMAIN d => d[Store] # names[Wal]
      /\ \A d \in disk : Wal \in DOMAIN d => d[Wal] # names[Store]
  BY <1>4 DEF PosixInv, MapsInv, ApartInv
<1>7. Rev(p) = RecoveredIn(names, files)
  BY <1>4, <1>5, MaxOfTwo DEF Rev, RecoveredIn, LogIn
<1>8. RecoveredIn(names, files) = acked /\ acked \in Nat
  BY RevisionNow
<1> QED
  BY <1>1, <1>2, <1>3, <1>4, <1>5, <1>6, <1>7, <1>8

\* The writer writes to the store and its log.
LEMMA WriterWrites ==
    ASSUME PosixInv, NEW p \in Processes, Ready(p), UNCHANGED <<names, disk>>,
           NEW a \in Nat, NEW b \in Nat,
           files' = [files EXCEPT ![names[Store]].rev = a, ![names[Wal]].rev = b]
    PROVE  /\ DOMAIN files' = DOMAIN files /\ files' \in [DOMAIN files' -> FileType]
           /\ DOMAIN files' \subseteq Nat \ {0}
           /\ files'[names[Store]].rev = a /\ files'[names[Wal]].rev = b
           /\ \A f \in DOMAIN files : f \notin {names[Store], names[Wal]} => files'[f] = files[f]
           /\ MapsInv' /\ ApartInv' /\ WholeInv' /\ OrderInv'
           /\ \A q \in Processes \ {p} : NamesKept(q) /\ StageKept(q)
<1> DEFINE s == names[Store]
           w == names[Wal]
<1>1. s \in DOMAIN files /\ w \in DOMAIN files /\ s # w
  BY ReadyIs DEF PosixInv, MapsInv
<1>2. DOMAIN files \subseteq Nat \ {0} /\ files \in [DOMAIN files -> FileType]
  BY DEF PosixInv, TypeOK
<1>3. files' = [files EXCEPT ![s].rev = a, ![w].rev = b]
  OBVIOUS
<1> HIDE DEF s, w
<1>4. DOMAIN files' = DOMAIN files
  BY <1>3
<1>5. /\ files'[s].rev = a /\ files'[w].rev = b
      /\ \A f \in DOMAIN files : f \notin {s, w} => files'[f] = files[f]
      /\ \A f \in DOMAIN files : files'[f].whole = files[f].whole
  BY <1>1, <1>2, <1>3 DEF FileType
<1>6. files' \in [DOMAIN files' -> FileType]
  <2>1. \A f \in DOMAIN files : files'[f].rev \in Nat /\ files'[f] = [rev |-> files'[f].rev, whole |-> files[f].whole]
    BY <1>1, <1>2, <1>3 DEF FileType
  <2>2. \A f \in DOMAIN files : files'[f] \in FileType
    BY <1>2, <2>1 DEF FileType
  <2>3. files' = [f \in DOMAIN files |-> files'[f]]
    BY <1>3
  <2> QED
    BY <1>4, <2>2, <2>3
<1>7. MapsInv' /\ ApartInv' /\ OrderInv'
  BY <1>4, SameNames
<1>8. WholeInv'
  BY <1>5 DEF PosixInv, WholeInv, MapsInv, MapOK
<1>9. ASSUME NEW q \in Processes \ {p} PROVE NamesKept(q) /\ StageKept(q)
  <2>1. ~Owns(q)
    BY ReadyIs, OneOwner DEF Writer, Owned
  <2>2. \A n \in Staged(q) \cap DOMAIN names : names[n] \in DOMAIN files /\ names[n] \notin {s, w}
    <3>1. \A n \in Staged(q) : n \notin Public
      BY NamesApart DEF Staged
    <3>2. Store \in DOMAIN names /\ Wal \in DOMAIN names /\ names \in disk
      BY ReadyIs DEF PosixInv, MapsInv
    <3> QED
      BY <3>1, <3>2, StagedFile DEF s, w, Public
  <2>3. StageKept(q)
    BY <1>5, <2>2 DEF StageKept
  <2> QED
    BY <2>1, <2>3 DEF NamesKept
<1> QED
  BY <1>2, <1>4, <1>5, <1>6, <1>7, <1>8, <1>9 DEF s, w

LEMMA StillAlone ==
    ASSUME PosixInv, NEW p \in Processes, NEW t, todo' = [todo EXCEPT ![p] = t],
           UNCHANGED <<platform, pending, locked, handle>>
    PROVE  /\ Alone(p, t, handle[p]) /\ handle[p] \in Handle /\ todo'[p] = t /\ handle'[p] = handle[p]
           /\ \A q \in Processes \ {p} : todo'[q] = todo[q]
           /\ \A q, f : Holds(q, f) => Holds(q, f)'
<1>1. handle' = [handle EXCEPT ![p] = handle[p]]
  BY DEF PosixInv, TypeOK
<1>2. Alone(p, t, handle[p])
  BY <1>1 DEF Alone
<1> QED
  BY <1>2, AloneIs, HandleIs DEF Holds

LEMMA AcknowledgeKeeps ==
    ASSUME PosixInv, NEW p \in Processes, Acknowledge(p)
    PROVE  PosixInv'
<1> DEFINE M == Put(Put(<<>>, Store, handle[p].store), Wal, handle[p].wal)
<1>1. Ready(p)
  BY DEF Acknowledge
<1>2. /\ Writer(p) /\ todo[p] = <<>> /\ ~Is(p, "sync") /\ ~Unsynced(p)
      /\ Store \in DOMAIN names /\ Wal \in DOMAIN names
      /\ handle[p].store = names[Store] /\ handle[p].wal = names[Wal]
      /\ names[Store] \in DOMAIN files /\ names[Wal] \in DOMAIN files
      /\ Rev(p) = acked /\ RecoveredIn(names, files) = acked /\ acked \in Nat
      /\ \A d \in disk : Store \in DOMAIN d => d[Store] # names[Wal]
      /\ \A d \in disk : Wal \in DOMAIN d => d[Wal] # names[Store]
  BY <1>1, ReadyIs
<1>3. Settled(disk, M) <=> Settled(disk, names)
  <2>1. DOMAIN M = {Store, Wal} /\ M[Store] = names[Store] /\ M[Wal] = names[Wal]
    <3>1. Store # Wal
      BY NamesApart
    <3>2. M = [m \in DOMAIN Put(<<>>, Store, handle[p].store) \cup {Wal} |->
                 IF m = Wal THEN handle[p].wal ELSE Put(<<>>, Store, handle[p].store)[m]]
      BY DEF Put
    <3>3. Put(<<>>, Store, handle[p].store) = [m \in {Store} |-> handle[p].store]
      <4>1. DOMAIN <<>> \cup {Store} = {Store}
        OBVIOUS
      <4> QED
        BY <4>1 DEF Put
    <3> QED
      BY <1>2, <3>1, <3>2, <3>3
  <2> HIDE DEF M
  <2> QED
    BY <1>2, <2>1 DEF Settled
<1> HIDE DEF M
<1>4. /\ files' = [files EXCEPT ![names[Wal]].rev = acked + 1] /\ acked' = acked + 1
      /\ promised' = IF Settled(disk, names) THEN acked + 1 ELSE promised
      /\ UNCHANGED <<platform, names, disk, pending, locked, todo, handle, unsettled>>
  BY <1>2, <1>3 DEF Acknowledge, M
<1>5. files[names[Store]].rev \in Nat /\ names[Store] # names[Wal] /\ names \in disk
      /\ files \in [DOMAIN files -> FileType]
  BY <1>2 DEF PosixInv, TypeOK, FileType, MapsInv
<1>6. files' = [files EXCEPT ![names[Store]].rev = files[names[Store]].rev, ![names[Wal]].rev = acked + 1]
  <2> DEFINE s == names[Store]
             w == names[Wal]
  <2>1. s \in DOMAIN files /\ files \in [DOMAIN files -> FileType] /\ s # w /\ w \in DOMAIN files
        /\ files' = [files EXCEPT ![w].rev = acked + 1]
    BY <1>2, <1>4, <1>5
  <2> HIDE DEF s, w
  <2>2. [files EXCEPT ![s].rev = files[s].rev] = files
    <3>1. files[s] \in FileType
      BY <2>1
    <3>2. [files[s] EXCEPT !.rev = files[s].rev] = files[s]
      BY <3>1 DEF FileType
    <3> QED
      BY <2>1, <3>2
  <2> QED
    BY <2>1, <2>2 DEF s, w
<1>7. /\ DOMAIN files' = DOMAIN files /\ files' \in [DOMAIN files' -> FileType]
      /\ DOMAIN files' \subseteq Nat \ {0}
      /\ files'[names[Store]].rev = files[names[Store]].rev /\ files'[names[Wal]].rev = acked + 1
      /\ \A f \in DOMAIN files : f \notin {names[Store], names[Wal]} => files'[f] = files[f]
      /\ MapsInv' /\ ApartInv' /\ WholeInv' /\ OrderInv'
      /\ \A q \in Processes \ {p} : NamesKept(q) /\ StageKept(q)
  <2> DEFINE a == files[names[Store]].rev
             b == acked + 1
  <2>1. a \in Nat /\ b \in Nat /\ UNCHANGED <<names, disk>>
        /\ files' = [files EXCEPT ![names[Store]].rev = a, ![names[Wal]].rev = b]
    <3>1. a \in Nat
      BY <1>5
    <3>2. b \in Nat
      BY <1>2
    <3>3. names' = names /\ disk' = disk
      BY SMTT(60), <1>4
    <3> QED
      BY <1>6, <3>1, <3>2, <3>3
  <2> HIDE DEF a, b
  <2>2. /\ DOMAIN files' = DOMAIN files /\ files' \in [DOMAIN files' -> FileType]
        /\ DOMAIN files' \subseteq Nat \ {0}
        /\ files'[names[Store]].rev = a /\ files'[names[Wal]].rev = b
        /\ \A f \in DOMAIN files : f \notin {names[Store], names[Wal]} => files'[f] = files[f]
        /\ MapsInv' /\ ApartInv' /\ WholeInv' /\ OrderInv'
        /\ \A q \in Processes \ {p} : NamesKept(q) /\ StageKept(q)
    BY <1>1, <2>1, WriterWrites
  <2> QED
    BY <2>2 DEF a, b
<1>8. todo' = todo /\ handle' = handle /\ locked' = locked /\ platform' = platform
  BY <1>4
<1>9. promised \in Nat /\ promised <= acked
  BY RevisionNow
<1>10. TypeOK'
  <2>1. acked' \in Nat /\ promised' \in Nat
    BY <1>2, <1>4, <1>9
  <2> QED
    BY <1>4, <1>7, <2>1 DEF PosixInv, TypeOK
<1>11. RevisionInv'
  <2>1. files[names[Store]].rev <= acked
    BY <1>2, <1>5, RevisionNow DEF RecoveredIn
  <2>2. RecoveredIn(names', files') = acked + 1
    <3>1. LogIn(names, files') = acked + 1 /\ acked + 1 \in Nat
      BY <1>2, <1>7 DEF LogIn
    <3>2. ~(files[names[Store]].rev >= acked + 1)
      BY <1>2, <1>5, <2>1
    <3> QED
      BY <1>2, <1>4, <1>7, <3>1, <3>2 DEF RecoveredIn
  <2>3. ASSUME NEW d \in disk PROVE RecoveredIn(d, files') >= promised'
                                    /\ (Store \in DOMAIN d /\ d[Store] # names[Store] => files'[d[Store]].rev >= promised')
    <3>0. /\ \A m \in DOMAIN d : d[m] \in DOMAIN files /\ files[d[m]].rev \in Nat
          /\ \A m \in DOMAIN d : files'[d[m]].rev \in Nat
      BY <1>7 DEF PosixInv, TypeOK, MapsInv, MapOK, FileType
    <3>1. Store \in DOMAIN d => files'[d[Store]].rev = files[d[Store]].rev
      BY <1>2, <1>7, <3>0
    <3>2. Wal \in DOMAIN d => files'[d[Wal]].rev = IF d[Wal] = names[Wal] THEN acked + 1 ELSE files[d[Wal]].rev
      BY <1>2, <1>7, <3>0
    <3>3. CASE Settled(disk, names)
      <4>1. promised' = acked + 1 /\ Store \in DOMAIN d /\ d[Store] = names[Store]
            /\ Wal \in DOMAIN d /\ d[Wal] = names[Wal]
        BY <1>2, <1>4, <3>3 DEF Settled
      <4>2. LogIn(d, files') = acked + 1
        BY <3>2, <4>1 DEF LogIn
      <4> QED
        BY <1>2, <1>7, <2>1, <3>0, <4>1, <4>2 DEF RecoveredIn
    <3>4. CASE ~Settled(disk, names)
      <4>1. promised' = promised
        BY <1>4, <3>4
      <4>2. RecoveredIn(d, files) >= promised /\ RecoveredIn(d, files) \in Nat
        BY RevisionNow
      <4>3. RecoveredIn(d, files') >= promised
        BY <1>2, <1>9, <3>0, <3>1, <3>2, <4>2 DEF RecoveredIn, LogIn
      <4> QED
        BY <3>1, <4>1, <4>3, RevisionNow
    <3> QED
      BY <3>3, <3>4
  <2>4. promised' <= acked'
    BY <1>2, <1>4, <1>9
  <2> QED
    BY <1>4, <1>7, <1>10, <2>2, <2>3, <2>4, RevisionKeeps
<1>12. SettledInv'
  <2>1. \A q \in Processes : ~Unsynced(q)
    BY <1>2, OneOwner DEF Unsynced, Writer, Owned
  <2>2. ~unsettled => Settled(disk, names)
    BY <1>2, <2>1 DEF PosixInv, SettledInv
  <2>3. Settled(disk, names)' <=> Settled(disk, names)
    BY <1>4 DEF Settled
  <2>4. ~unsettled => promised' = acked'
    BY <1>4, <2>2
  <2> QED
    BY <1>4, <2>2, <2>3, <2>4 DEF SettledInv
<1>13. Placed(p)'
  <2>1. Writer(p)'
    BY <1>2, <1>4, <1>8 DEF Writer, Owned, Owns, Holds
  <2> QED
    BY <1>2, <1>8, <2>1 DEF Placed
<1>14. ASSUME NEW q \in Processes \ {p} PROVE Placed(q)'
  <2>1. Placed(q) /\ \A f : Holds(q, f) => Holds(q, f)'
    BY <1>8 DEF PosixInv, Holds
  <2> QED
    BY <1>7, <1>8, <2>1, StaysPlaced
<1> QED
  BY <1>7, <1>10, <1>11, <1>12, <1>13, <1>14 DEF PosixInv

LEMMA CloseStoreKeeps ==
    ASSUME PosixInv, NEW p \in Processes, CloseStore(p)
    PROVE  PosixInv'
<1>1. Ready(p)
  BY DEF CloseStore
<1>2. /\ Writer(p) /\ todo[p] = <<>> /\ ~Is(p, "sync") /\ ~Unsynced(p)
      /\ Store \in DOMAIN names /\ Wal \in DOMAIN names
      /\ handle[p].store = names[Store] /\ handle[p].wal = names[Wal]
      /\ names[Store] \in DOMAIN files /\ names[Wal] \in DOMAIN files
      /\ Rev(p) = acked /\ RecoveredIn(names, files) = acked /\ acked \in Nat
      /\ \A d \in disk : Store \in DOMAIN d => d[Store] # names[Wal]
      /\ \A d \in disk : Wal \in DOMAIN d => d[Wal] # names[Store]
  BY <1>1, ReadyIs
<1>3. /\ files' = [files EXCEPT ![names[Store]].rev = acked, ![names[Wal]].rev = 0]
      /\ todo' = [todo EXCEPT ![p] = Closing]
      /\ UNCHANGED <<platform, names, disk, pending, locked, handle, acked, promised, unsettled>>
  BY SMTT(60), <1>2 DEF CloseStore, history
<1>4. /\ DOMAIN files' = DOMAIN files /\ files' \in [DOMAIN files' -> FileType]
      /\ DOMAIN files' \subseteq Nat \ {0}
      /\ files'[names[Store]].rev = acked /\ files'[names[Wal]].rev = 0
      /\ \A f \in DOMAIN files : f \notin {names[Store], names[Wal]} => files'[f] = files[f]
      /\ MapsInv' /\ ApartInv' /\ WholeInv' /\ OrderInv'
      /\ \A q \in Processes \ {p} : NamesKept(q) /\ StageKept(q)
  <2>1. names' = names /\ disk' = disk /\ acked \in Nat /\ 0 \in Nat
    BY <1>2, <1>3
  <2> QED
    BY <1>1, <1>3, <2>1, WriterWrites
<1>5. IsSeq(Closing)
  BY ClosingIs
<1>6. /\ Alone(p, Closing, handle[p]) /\ handle[p] \in Handle /\ todo'[p] = Closing /\ handle'[p] = handle[p]
      /\ \A q \in Processes \ {p} : todo'[q] = todo[q]
      /\ \A q, f : Holds(q, f) => Holds(q, f)'
  BY <1>3, StillAlone
<1>7. TypeOK'
  BY <1>3, <1>4, <1>5, <1>6, TypeKeeps DEF PosixInv, TypeOK
<1>8. RevisionInv'
  <2>1. RecoveredIn(names, files') = acked
    BY <1>2, <1>4 DEF RecoveredIn, LogIn
  <2>2. ASSUME NEW d \in disk PROVE RecoveredIn(d, files') >= promised
                                    /\ (Store \in DOMAIN d /\ d[Store] # names[Store] => files'[d[Store]].rev >= promised)
    <3>1. \A m \in DOMAIN d : d[m] \in DOMAIN files /\ files'[d[m]].rev \in Nat
      BY <1>4 DEF PosixInv, MapsInv, MapOK, FileType
    <3>2. LogIn(d, files') \in Nat /\ promised \in Nat
      BY <3>1, RevisionNow DEF LogIn
    <3>3. CASE Store \notin DOMAIN d
      <4>1. RecoveredIn(d, files') = RecoveredIn(d, files)
        BY <3>3 DEF RecoveredIn
      <4> QED
        BY <3>3, <4>1, RevisionNow
    <3>4. CASE Store \in DOMAIN d
      <4>1. files'[d[Store]].rev >= promised
        <5>1. CASE d[Store] = names[Store]
          BY <1>4, <5>1, RevisionNow
        <5>2. CASE d[Store] # names[Store]
          BY <1>2, <1>4, <3>1, <3>4, <5>2, RevisionNow
        <5> QED
          BY <5>1, <5>2
      <4>2. RecoveredIn(d, files') >= promised
        BY <3>1, <3>2, <3>4, <4>1 DEF RecoveredIn
      <4> QED
        BY <4>1, <4>2
    <3> QED
      BY <3>3, <3>4
  <2> QED
    BY <1>3, <1>4, <1>7, <2>1, <2>2, RevisionNow, RevisionKeeps
<1>9. SettledInv'
  <2>1. \A n \in {Store, Wal} : /\ n \in DOMAIN names' <=> n \in DOMAIN names
                                /\ n \in DOMAIN names => names'[n] = names[n]
    BY <1>3
  <2> QED
    BY <1>2, <1>3, <1>6, <2>1, SettledStays
<1>10. Placed(p)'
  <2>1. From(Closing, 1) = Closing
    <3>1. 1 \in 1 .. Len(Closing)
      BY ClosingIs
    <3> QED
      BY <1>5, <3>1, NextCall
  <2>2. Owned(p)' /\ Wal \in DOMAIN names' /\ LogEmpty'
    BY <1>2, <1>3, <1>4, <1>6 DEF Writer, Owned, Owns, LogEmpty
  <2>3. CloseAt(p, 1)'
    BY <1>6, <2>1, <2>2 DEF CloseAt, At
  <2> QED
    BY <2>3 DEF Placed
<1>11. \A q \in Processes \ {p} : Placed(q)'
  BY <1>4, <1>6, OthersPlaced
<1> QED
  BY <1>4, <1>7, <1>8, <1>9, <1>10, <1>11 DEF PosixInv

\* A rename is in progress on Windows only.
LEMMA NoneLost ==
    ASSUME ~Windows
    PROVE  Neither = {}
<1> DEFINE R == {q \in Processes : Windows /\ Renaming(q)}
<1>1. R = {}
  OBVIOUS
<1>2. \A x : x \in Neither => \E d \in disk : \E p \in R : x = Without(d, {Arg(p, 1), Arg(p, 2)})
  BY DEF Neither
<1>3. \A x : x \notin Neither
  BY <1>1, <1>2
<1> QED
  BY <1>3

LEMMA PowerLossKeeps ==
    ASSUME PosixInv, PowerLoss
    PROVE  PosixInv'
<1>1. ~Windows
  BY DEF PosixInv, TypeOK, Windows
<1>2. Neither = {}
  BY <1>1, NoneLost
<1>3. PICK d \in disk :
          /\ names' = d /\ disk' = {d}
          /\ files' = [f \in DOMAIN files |-> IF f \in Named(d) THEN files[f] ELSE File(0, FALSE)]
          /\ acked' = Recovered(d) /\ promised' = Recovered(d)
  BY <1>2 DEF PowerLoss
<1>4. /\ pending' = [p \in Processes |-> <<>>] /\ locked' = <<>> /\ unsettled' = FALSE
      /\ todo' = [p \in Processes |-> <<>>] /\ handle' = [p \in Processes |-> Nobody]
      /\ platform' = platform
  BY DEF PowerLoss
<1>5. \A n \in DOMAIN d : d[n] \in DOMAIN files /\ files'[d[n]] = files[d[n]]
  <2>1. MapOK(d)
    BY DEF PosixInv, MapsInv
  <2> QED
    BY <1>3, <2>1 DEF MapOK, Named
<1>6. /\ DOMAIN files' = DOMAIN files /\ DOMAIN files' \subseteq Nat \ {0}
      /\ files' \in [DOMAIN files' -> FileType]
  BY <1>3 DEF PosixInv, TypeOK, FileType, File
<1>7. acked' = RecoveredIn(d, files) /\ promised' = acked' /\ acked' \in Nat
  <2>1. Recovered(d) = RecoveredIn(d, files)
    BY SoundNow, RecoveredIs
  <2> QED
    BY <1>3, <2>1, RevisionNow
<1>8. TypeOK'
  <2>1. platform' = "posix"
    BY <1>4 DEF PosixInv, TypeOK
  <2>2. \A p \in Processes : todo'[p] \in Seq(ToSet(todo'[p]))
    BY <1>4, Literals DEF IsSeq
  <2>3. locked' \in [DOMAIN locked' -> Processes]
    BY <1>4
  <2>4. handle' \in [Processes -> [store : DOMAIN files' \cup {Free}, other : DOMAIN files' \cup {Free},
                                   wal : DOMAIN files' \cup {Free}]]
    BY <1>4 DEF Nobody
  <2> QED
    BY <1>4, <1>6, <1>7, <2>1, <2>2, <2>3, <2>4 DEF TypeOK
<1>9. MapsInv'
  <2>1. MapOK(d)
    BY DEF PosixInv, MapsInv
  <2>2. IsFiniteSet({d})
    BY FS_Singleton
  <2> QED
    BY <1>3, <1>6, <2>1, <2>2 DEF MapsInv, MapOK
<1>10. ApartInv'
  <2>1. \A m, n \in DOMAIN d : d[m] = d[n] => m = n
    BY DEF PosixInv, MapsInv, MapOK
  <2>2. Wal \in DOMAIN d /\ Store \in DOMAIN d => d[Wal] # d[Store]
    BY DEF PosixInv, ApartInv
  <2> QED
    BY <1>3, <2>1, <2>2 DEF ApartInv
<1>11. WholeInv'
  BY <1>3, <1>5 DEF PosixInv, WholeInv
<1>12. OrderInv'
  BY <1>3 DEF PosixInv, OrderInv
<1>13. RevisionInv'
  <2>1. RecoveredIn(d, files') = RecoveredIn(d, files)
    BY <1>5 DEF RecoveredIn, LogIn
  <2>2. \A e \in disk' : e = d
    BY <1>3
  <2>3. names' = d
    BY <1>3
  <2> QED
    BY <1>7, <1>8, <1>9, <1>11, <2>1, <2>2, <2>3, RevisionKeeps
<1>14. SettledInv'
  BY <1>3, <1>7 DEF SettledInv, Settled
<1>15. \A p \in Processes : Placed(p)'
  BY <1>4 DEF Placed, Idle, Nobody
<1> QED
  BY <1>8, <1>9, <1>10, <1>11, <1>12, <1>13, <1>14, <1>15 DEF PosixInv

-----------------------------------------------------------------------------
(* Every step. *)

LEMMA CallsKeep ==
    ASSUME PosixInv, NEW p \in Processes, Calls(p)
    PROVE  PosixInv'
<1>1. ~Unlocks(p)
  <2>1. ~Windows /\ Placed(p)
    BY PosixView DEF PosixInv
  <2> QED
    BY <2>1, Callers DEF Unlocks
<1> QED
  BY <1>1, OpensKeep, LocksKeep, AsksNameKeeps, LocksOtherKeeps, VerifiesKeeps, AsksLogKeeps, AsksFreeKeeps,
     AsksVacantKeeps, StagesKeep, CreatesKeep, WritesKeep, UnlinksKeep, SyncsKeep, InstallsKeep, ReplacesKeep,
     SweepsKeep, OpensWalKeeps, HoldsLogKeeps, DoneKeeps
  DEF Calls

LEMMA NextKeeps ==
    ASSUME PosixInv, Next
    PROVE  PosixInv'
<1>1. ASSUME NEW p \in Processes, Starts(p) \/ Calls(p) \/ Acknowledge(p) \/ CloseStore(p) \/ Kill(p)
      PROVE  PosixInv'
  BY <1>1, StartsKeep, CallsKeep, AcknowledgeKeeps, CloseStoreKeeps, KillKeeps
<1>2. CASE PowerLoss
  BY <1>2, PowerLossKeeps
<1> QED
  BY <1>1, <1>2 DEF Next

LEMMA PlatformStays ==
    ASSUME Next
    PROVE  platform' = platform
<1>1. ASSUME NEW p \in Processes, Starts(p) \/ Calls(p) \/ Acknowledge(p) \/ CloseStore(p) \/ Kill(p)
      PROVE  platform' = platform
  <2>1. CASE Starts(p)
    BY <2>1 DEF Starts, StartOpen, StartReclaim, StartRestore, StartBackup, Start
  <2>2. Refused(p) => platform' = platform
    BY DEF Refused
  <2>3. \A allowed, h, locks : Handles(p, allowed, h, locks) => platform' = platform
    BY <2>2 DEF Handles
  <2>4. \A t : Names(p, t) => platform' = platform
    BY DEF Names
  <2>5. CASE Opens(p) \/ Locks(p) \/ AsksName(p) \/ LocksOther(p) \/ Unlocks(p) \/ Verifies(p) \/ AsksLog(p)
             \/ AsksFree(p) \/ AsksVacant(p) \/ HoldsLog(p)
    BY <2>3, <2>5
    DEF Opens, Locks, AsksName, LocksOther, Unlocks, Verifies, AsksLog, AsksFree, AsksVacant, HoldsLog
  <2>6. CASE Stages(p) \/ Creates(p) \/ Writes(p) \/ Unlinks(p) \/ Sweeps(p) \/ OpensWal(p)
    <3>1. CASE Stages(p) \/ Creates(p) \/ Writes(p)
      BY <2>2, <2>4, <3>1 DEF Stages, Creates, Writes
    <3>2. CASE Unlinks(p) \/ Sweeps(p) \/ OpensWal(p)
      BY <2>4, <3>2 DEF Unlinks, Sweeps, OpensWal
    <3> QED
      BY <2>6, <3>1, <3>2
  <2>7. CASE Syncs(p) \/ Installs(p) \/ Replaces(p) \/ Done(p)
    BY <2>2, <2>7 DEF Syncs, Installs, Replaces, Done
  <2>8. CASE Acknowledge(p) \/ CloseStore(p) \/ Kill(p)
    BY <2>8 DEF Acknowledge, CloseStore, Kill
  <2> QED
    BY <1>1, <2>1, <2>5, <2>6, <2>7, <2>8 DEF Calls
<1>2. CASE PowerLoss
  BY <1>2 DEF PowerLoss
<1> QED
  BY <1>1, <1>2 DEF Next

LEMMA StutterKeeps ==
    ASSUME PosixInv, UNCHANGED vars
    PROVE  PosixInv'
<1>1. UNCHANGED <<platform, names, disk, pending, files, locked, todo, handle, acked, promised, unsettled>>
  BY DEF vars, space, history
<1>2. TypeOK'
  BY <1>1 DEF PosixInv, TypeOK
<1>3. MapsInv' /\ ApartInv' /\ OrderInv'
  BY <1>1, SameNames
<1>4. WholeInv'
  BY <1>1 DEF PosixInv, WholeInv
<1>5. RevisionInv'
  BY <1>1, <1>2, <1>3, <1>4, SameRevisions
<1>6. SettledInv'
  <2>1. Settled(disk, names)' <=> Settled(disk, names)
    BY <1>1 DEF Settled
  <2>2. \A q \in Processes : (Is(q, "sync") <=> Is(q, "sync")') /\ (Unsynced(q) <=> Unsynced(q)')
    BY <1>1 DEF Unsynced, Owns, Holds, Is, At, From, NewLog
  <2> QED
    BY <1>1, <2>1, <2>2 DEF PosixInv, SettledInv
<1>7. ASSUME NEW q \in Processes PROVE Placed(q)'
  <2>1. NamesKept(q) /\ StageKept(q) /\ Placed(q) /\ \A f : Holds(q, f) => Holds(q, f)'
    BY <1>1 DEF NamesKept, StageKept, PosixInv, Holds
  <2> QED
    BY <1>1, <2>1, StaysPlaced
<1> QED
  BY <1>2, <1>3, <1>4, <1>5, <1>6, <1>7 DEF PosixInv

LEMMA InitHolds ==
    ASSUME Init
    PROVE  InstallInv
<1>1. platform \in {"posix", "windows"}
  BY DEF Init
<1>2. ASSUME ~Windows PROVE PosixInv
  <2>1. platform = "posix"
    BY <1>1, <1>2 DEF Windows
  <2>2. /\ pending = [p \in Processes |-> <<>>] /\ locked = <<>> /\ disk = {names}
        /\ todo = [p \in Processes |-> <<>>] /\ handle = [p \in Processes |-> Nobody]
        /\ acked = 0 /\ promised = 0 /\ unsettled = FALSE
    BY DEF Init
  <2>3. /\ DOMAIN names \subseteq {Copied} /\ names \in [DOMAIN names -> {1}]
        /\ files \in [DOMAIN files -> FileType] /\ DOMAIN files \subseteq {1}
        /\ DOMAIN names # {} => 1 \in DOMAIN files /\ files[1].whole
    <3>0. DOMAIN <<>> = {}
      OBVIOUS
    <3>1. CASE names = <<>> /\ files = <<>>
      BY <3>0, <3>1
    <3>2. CASE names = Put(<<>>, Copied, 1) /\ files = Put(<<>>, 1, File(1, TRUE))
      <4>1. names = [m \in {Copied} |-> 1]
        BY <3>0, <3>2 DEF Put
      <4>2. files = [m \in {1} |-> File(1, TRUE)]
        BY <3>0, <3>2 DEF Put
      <4> QED
        BY <4>1, <4>2 DEF File, FileType
    <3> QED
      BY <3>1, <3>2 DEF Init
  <2>4. TypeOK
    <3>1. \A p \in Processes : todo[p] \in Seq(ToSet(todo[p]))
      BY <2>2, Literals DEF IsSeq
    <3>2. locked \in [DOMAIN locked -> Processes]
      BY <2>2
    <3>3. handle \in [Processes -> [store : DOMAIN files \cup {Free}, other : DOMAIN files \cup {Free},
                                    wal : DOMAIN files \cup {Free}]]
      BY <2>2 DEF Nobody
    <3>4. DOMAIN files \subseteq Nat \ {0} /\ files \in [DOMAIN files -> FileType]
      BY <2>3
    <3>5. DOMAIN todo = Processes /\ unsettled \in BOOLEAN /\ acked \in Nat /\ promised \in Nat
      BY <2>2
    <3>6. pending = [p \in Processes |-> <<>>]
      BY <2>2
    <3> QED
      BY <2>1, <3>1, <3>2, <3>3, <3>4, <3>5, <3>6 DEF TypeOK
  <2>5. Store \notin DOMAIN names /\ Wal \notin DOMAIN names
    BY <2>3, NamesApart
  <2>6. MapsInv
    <3>1. IsFiniteSet(disk)
      BY <2>2, FS_Singleton
    <3>2. MapOK(names)
      BY <2>3, PosixNamesAre DEF MapOK
    <3> QED
      BY <2>2, <3>1, <3>2 DEF MapsInv
  <2>7. ApartInv /\ OrderInv
    BY <2>2, <2>3, <2>5 DEF ApartInv, OrderInv, Public
  <2>8. WholeInv
    BY <2>2, <2>3, <2>5 DEF WholeInv
  <2>9. RevisionInv
    <3>1. Recovered(names) = 0
      <4>1. {Store, Anchor} \cap DOMAIN names = {}
        BY <2>3, <2>5, NamesApart DEF Public
      <4> QED
        BY <4>1 DEF Recovered
    <3>2. \A d \in disk : d = names
      BY <2>2
    <3> QED
      BY <2>2, <2>5, <3>1, <3>2 DEF RevisionInv
  <2>10. SettledInv
    BY <2>2, <2>5 DEF SettledInv
  <2>11. \A p \in Processes : Placed(p)
    BY <2>2 DEF Placed, Idle
  <2> QED
    BY <2>4, <2>6, <2>7, <2>8, <2>9, <2>10, <2>11 DEF PosixInv
<1> QED
  BY <1>1, <1>2 DEF InstallInv

LEMMA StepKeeps ==
    ASSUME InstallInv, [Next]_vars
    PROVE  InstallInv'
<1>1. platform' = platform
  BY PlatformStays DEF vars
<1>2. Windows' <=> Windows
  BY <1>1 DEF Windows
<1>3. ~Windows => PosixInv'
  BY NextKeeps, StutterKeeps DEF InstallInv
<1> QED
  BY <1>1, <1>2, <1>3 DEF InstallInv

-----------------------------------------------------------------------------
(* The theorems. *)

\* What InstallInvariant says is true at every state of Install, for any finite set of
\* processes and any bounds: on POSIX every process is before a call of one of the
\* programs with the locks, names and copies that the place stands for, no disk has a
\* log without its store, and what each disk recovers is no less than promised.
THEOREM InstallInvariantHolds == Spec => []InstallInv
<1>1. Init => InstallInv
  BY InitHolds
<1>2. InstallInv /\ [Next]_vars => InstallInv'
  BY StepKeeps
<1> QED
  BY <1>1, <1>2, PTL DEF Spec

\* On POSIX no two processes write to a store at once, however opens, births, reclaims,
\* restores, backups and closes interleave and whoever is killed between any two calls
\* of theirs (lock_writer_current, mod.rs), and who writes has the file that the name of
\* the store stands for, at the newest revision.
THEOREM WritersExclude == Spec => [](~Windows => OneWriter)
<1>1. ASSUME InstallInv PROVE ~Windows => OneWriter
  <2> SUFFICES ASSUME ~Windows PROVE OneWriter
    OBVIOUS
  <2>1. PosixInv
    BY <1>1 DEF InstallInv
  <2>2. ASSUME NEW p \in Processes, Ready(p)
        PROVE  /\ \A q \in Processes \ {p} : ~Ready(q)
               /\ Store \in DOMAIN names /\ names[Store] = handle[p].store
               /\ Rev(p) = acked
    <3>1. Writer(p) /\ Store \in DOMAIN names /\ handle[p].store = names[Store] /\ Rev(p) = acked
      BY <2>1, <2>2, ReadyIs
    <3>2. ASSUME NEW q \in Processes \ {p}, Ready(q) PROVE FALSE
      <4>1. Writer(q)
        BY <2>1, <3>2, ReadyIs
      <4> QED
        BY <3>1, <4>1, OneOwner DEF Writer, Owned
    <3> QED
      BY <3>1, <3>2
  <2> QED
    BY <2>2 DEF OneWriter
<1> QED
  BY <1>1, InstallInvariantHolds, PTL

\* On POSIX a store, a backup or whatever else is opened, restored or copied from is a
\* whole file on every disk a power loss may leave, however far the birth, the reclaim,
\* the restore or the backup that installs it has come.
THEOREM NothingHalfInstalled == Spec => [](~Windows => InstalledWhole)
<1>1. ASSUME InstallInv PROVE ~Windows => InstalledWhole
  <2> SUFFICES ASSUME ~Windows PROVE InstalledWhole
    OBVIOUS
  <2>1. PosixInv
    BY <1>1 DEF InstallInv
  <2>2. \A d \in disk \cup Neither \cup {names} : d \in disk
    BY <2>1, NoneLost DEF PosixInv, MapsInv
  <2>3. \A d \in disk : Anchor \notin DOMAIN d /\ Candidate \notin DOMAIN d
    BY <2>1, PosixNamesAre DEF PosixInv, MapsInv, MapOK
  <2> QED
    BY <2>1, <2>2, <2>3 DEF InstalledWhole, PosixInv, WholeInv
<1> QED
  BY <1>1, InstallInvariantHolds, PTL

\* On POSIX every disk that a power loss may leave recovers every revision that was
\* acknowledged under durable names, and that is every revision acknowledged unless a
\* process ended between a change of names and its barrier.
THEOREM AcknowledgedOutlastsPower == Spec => [](~Windows => AcknowledgedSurvives)
<1>1. ASSUME InstallInv PROVE ~Windows => AcknowledgedSurvives
  <2> SUFFICES ASSUME ~Windows PROVE AcknowledgedSurvives
    OBVIOUS
  <2>1. RevisionInv /\ SettledInv
    BY <1>1 DEF InstallInv, PosixInv
  <2>2. \A d \in disk \cup (IF unsettled THEN {} ELSE Neither) : d \in disk
    BY NoneLost
  <2>3. ~unsettled /\ (\A p \in Processes : ~Is(p, "sync")) => promised = acked
    BY <2>1 DEF SettledInv
  <2> QED
    BY <2>1, <2>2, <2>3 DEF AcknowledgedSurvives, RevisionInv
<1> QED
  BY <1>1, InstallInvariantHolds, PTL

=============================================================================
