-------------------------- MODULE HidReportsProofs --------------------------
(***************************************************************************)
(* Proofs about the arrays of keys, and what the host reads from a post,   *)
(* for any number of handlers whose comparisons, stores, copies and posts  *)
(* come in any order.                                                      *)
(*                                                                         *)
(* What the host reads is a fact about constants: of the descriptor's six  *)
(* fields exactly one has the id and the length of a report, and it takes  *)
(* every byte, on the page the driver means (Decoded).                     *)
(*                                                                         *)
(* That nothing is left in an array needs no lock: whatever key is in it,  *)
(* some handler dispatched it there and has not yet looked at that place   *)
(* to take it out (Owned).  So a stroke that meets nobody finds the array  *)
(* empty, whoever was there before, and as long as nobody joins it (Single) *)
(* the array and the copy hold what it put there (LoneAt).                 *)
(***************************************************************************)
EXTENDS HidReports, TLAPS

\* A loop starts at the first place, and a copy lives from its making to its post.
Fresh ==
  \A t \in Handlers :
    /\ stage[t] \in {"idle", "copyDown", "sendDown", "copyUp", "sendUp"} => place[t] = 1
    /\ stage[t] \notin {"sendDown", "sendUp"} => Contents(copy[t]) = {}

\* Handler t has still to look at place p to take its key out.
WillErase(t, p) ==
  \/ stage[t] \in {"exists", "find", "store", "copyDown", "sendDown"}
  \/ stage[t] \in {"erase", "eraseStore"} /\ place[t] <= p

Owner(t, r, p) == Report(t) = r /\ Code(t) = keys[r][p] /\ WillErase(t, p)
Owned == \A r \in Reports, p \in Places :
           keys[r][p] # 0 => \E t \in Handlers : Owner(t, r, p)

Single == \A r \in Reports : r \notin crowded => \A t, u \in Users(r) : t = u

\* Handler t, if its stroke has met nobody, knows its array and its copy.
LoneAt(t) ==
  (stage[t] # "idle" /\ Report(t) \notin crowded) =>
    /\ stage[t] \in {"exists", "find", "store"} => Contents(keys[Report(t)]) = {}
    /\ stage[t] \in {"copyDown", "sendDown"} => Contents(keys[Report(t)]) = {Code(t)}
    /\ stage[t] = "sendDown" => Contents(copy[t]) = {Code(t)}
    /\ stage[t] = "sendUp" => Contents(copy[t]) = {}
Lone == \A t \in Handlers : LoneAt(t)

IInv == TypeOK /\ Fresh /\ Owned /\ Single /\ Lone

-----------------------------------------------------------------------------
\* Every code fits a byte, so that the int of the dispatch is not cut off, and
\* none is the empty place.
LEMMA CodesAreBytes ==
  ASSUME NEW s \in Strokes
  PROVE  /\ s[1] \in Reports /\ s[2] \in Dispatched[s[1]]
         /\ s[2] \in 1 .. 255 /\ s[2] % 256 = s[2]
<1>1. \A c \in 1 .. 255 : c % 256 = c
  OBVIOUS
<1>2. \A r \in Reports : \A c \in Dispatched[r] : c \in 1 .. 255
  BY DEF Reports, Dispatched
<1>3. QED
  BY <1>1, <1>2, StrokesAssumption

\* What handler t has in hand.
LEMMA InHand ==
  ASSUME TypeOK, NEW t \in Handlers
  PROVE  /\ Report(t) \in Reports /\ Code(t) \in Dispatched[Report(t)]
         /\ Code(t) \in 1 .. 255 /\ Key(t) = Code(t)
         /\ place[t] \in Places /\ Here(t) = keys[Report(t)][place[t]]
         /\ keys[Report(t)] \in [Places -> Byte]
  BY CodesAreBytes DEF TypeOK, Report, Code, Key, Here

-----------------------------------------------------------------------------
(***************************************************************************)
(* The host's reading of the descriptor.                                   *)
(***************************************************************************)

\* The greatest of a set of numbers, once one is known to bound it.
LEMMA Greatest ==
  ASSUME NEW S \in SUBSET Nat, NEW m \in S, \A x \in S : x <= m
  PROVE Max(S) = m
<1>1. \E x \in S : \A y \in S : x >= y
  OBVIOUS
<1>2. Max(S) \in S /\ \A y \in S : Max(S) >= y
  BY <1>1, Zenon DEF Max
<1>3. PICK c \in S : c = Max(S) /\ c >= m
  BY <1>2
<1>4. QED
  BY <1>3

\* What an item reads is what the last item of the tag says.
LEMMA Reads ==
  ASSUME NEW i \in Nat, NEW tag, NEW j \in InForce(i, tag),
         \A k \in j + 1 .. i - 1 : Tag(k) # tag
  PROVE  ReadItem(i, tag) = IF tag \in {"LogicalMinimum", "LogicalMaximum"}
                            THEN Signed(Data(j)) ELSE Unsigned(Data(j))
<1>1. InForce(i, tag) \in SUBSET Nat /\ \A x \in InForce(i, tag) : x <= j
  BY DEF InForce
<1>2. Max(InForce(i, tag)) = j
  BY <1>1, Greatest
<1>3. QED
  BY <1>2 DEF ReadItem

\* Data of one byte, and a limit of one or two bytes whose last is below 128.
LEMMA Unsigned1 ==
  ASSUME NEW j, NEW tag, NEW a \in Byte, virt_reportDescriptor[j] = <<tag, a>>
  PROVE Unsigned(Data(j)) = a
<1>1. Len(Data(j)) = 1 /\ Data(j)[1] = a
  BY DEF Data
<1>2. QED
  BY <1>1 DEF Unsigned, Byte

LEMMA Signed1 ==
  ASSUME NEW j, NEW tag, NEW a \in 0 .. 127, virt_reportDescriptor[j] = <<tag, a>>
  PROVE Signed(Data(j)) = a
<1>1. Len(Data(j)) = 1 /\ Data(j)[1] = a
  BY DEF Data
<1>2. QED
  BY <1>1 DEF Unsigned, Signed

LEMMA Signed2 ==
  ASSUME NEW j, NEW tag, NEW a \in Byte, NEW b \in 0 .. 127,
         virt_reportDescriptor[j] = <<tag, a, b>>
  PROVE Signed(Data(j)) = a + 256 * b
<1>1. Len(Data(j)) = 2 /\ Data(j)[1] = a /\ Data(j)[2] = b
  BY DEF Data
<1>2. QED
  BY <1>1 DEF Unsigned, Signed, Byte

LEMMA InputItems == Inputs = {10, 13, 20, 30, 40, 50}
  BY DEF virt_reportDescriptor, KeyArray, Inputs, Tag

\* Every field belongs to the report whose id comes last before it.
LEMMA Ids ==
  /\ \A i \in {10, 13, 20} : ReadItem(i, "ReportId") = 1
  /\ ReadItem(30, "ReportId") = 2
  /\ ReadItem(40, "ReportId") = 3
  /\ ReadItem(50, "ReportId") = 191
<1>1. /\ \A i \in {10, 13, 20} : 2 \in InForce(i, "ReportId")
                                 /\ \A k \in 3 .. i - 1 : Tag(k) # "ReportId"
      /\ 22 \in InForce(30, "ReportId") /\ \A k \in 23 .. 29 : Tag(k) # "ReportId"
      /\ 32 \in InForce(40, "ReportId") /\ \A k \in 33 .. 39 : Tag(k) # "ReportId"
      /\ 42 \in InForce(50, "ReportId") /\ \A k \in 43 .. 49 : Tag(k) # "ReportId"
  BY DEF InForce, Tag, virt_reportDescriptor, KeyArray
<1>2. /\ Unsigned(Data(2)) = 1 /\ Unsigned(Data(22)) = 2
      /\ Unsigned(Data(32)) = 3 /\ Unsigned(Data(42)) = 191
  <2>1. /\ virt_reportDescriptor[2] = <<"ReportId", 1>>
        /\ virt_reportDescriptor[22] = <<"ReportId", 2>>
        /\ virt_reportDescriptor[32] = <<"ReportId", 3>>
        /\ virt_reportDescriptor[42] = <<"ReportId", 191>>
    BY DEF virt_reportDescriptor, KeyArray
  <2>2. QED
    BY <2>1, Unsigned1 DEF Byte
<1>3. QED
  BY <1>1, <1>2, Reads

\* Both arrays the driver posts take any byte, as many as their class has, on
\* the page the driver means.
LEMMA KeyFields ==
  ASSUME NEW i \in {30, 40}
  PROVE  /\ ReadItem(i, "UsagePage") = IF i = 30 THEN 12 ELSE 255
         /\ ReadItem(i, "ReportSize") = 8 /\ ReadItem(i, "ReportCount") = 32
         /\ ReadItem(i, "LogicalMinimum") = 0 /\ ReadItem(i, "LogicalMaximum") = 255
         /\ ReadItem(i, "UsageMinimum") = 0 /\ ReadItem(i, "UsageMaximum") = 255
<1>1. /\ i - 7 \in InForce(i, "UsagePage")
      /\ i - 6 \in InForce(i, "ReportCount") /\ i - 5 \in InForce(i, "ReportSize")
      /\ i - 4 \in InForce(i, "LogicalMinimum") /\ i - 3 \in InForce(i, "LogicalMaximum")
      /\ i - 2 \in InForce(i, "UsageMinimum") /\ i - 1 \in InForce(i, "UsageMaximum")
  BY DEF InForce, Tag, virt_reportDescriptor, KeyArray
<1>2. /\ \A k \in i - 6 .. i - 1 : Tag(k) # "UsagePage"
      /\ \A k \in i - 5 .. i - 1 : Tag(k) # "ReportCount"
      /\ \A k \in i - 4 .. i - 1 : Tag(k) # "ReportSize"
      /\ \A k \in i - 3 .. i - 1 : Tag(k) # "LogicalMinimum"
      /\ \A k \in i - 2 .. i - 1 : Tag(k) # "LogicalMaximum"
      /\ Tag(i - 1) # "UsageMinimum"
  <2>1. /\ Tag(i - 6) = "ReportCount" /\ Tag(i - 5) = "ReportSize"
        /\ Tag(i - 4) = "LogicalMinimum" /\ Tag(i - 3) = "LogicalMaximum"
        /\ Tag(i - 2) = "UsageMinimum" /\ Tag(i - 1) = "UsageMaximum"
    BY DEF Tag, virt_reportDescriptor, KeyArray
  <2>2. \A k \in i - 6 .. i - 1 : k \in {i - 6, i - 5, i - 4, i - 3, i - 2, i - 1}
    OBVIOUS
  <2>3. QED
    BY <2>1, <2>2
<1>3. /\ virt_reportDescriptor[i - 7] = <<"UsagePage", IF i = 30 THEN 12 ELSE 255>>
      /\ virt_reportDescriptor[i - 6] = <<"ReportCount", 32>>
      /\ virt_reportDescriptor[i - 5] = <<"ReportSize", 8>>
      /\ virt_reportDescriptor[i - 4] = <<"LogicalMinimum", 0>>
      /\ virt_reportDescriptor[i - 3] = <<"LogicalMaximum", 255, 0>>
      /\ virt_reportDescriptor[i - 2] = <<"UsageMinimum", 0>>
      /\ virt_reportDescriptor[i - 1] = <<"UsageMaximum", 255>>
  BY DEF virt_reportDescriptor, KeyArray
<1>4. /\ Unsigned(Data(i - 7)) = IF i = 30 THEN 12 ELSE 255
      /\ Unsigned(Data(i - 6)) = 32 /\ Unsigned(Data(i - 5)) = 8
      /\ Unsigned(Data(i - 2)) = 0 /\ Unsigned(Data(i - 1)) = 255
  BY <1>3, Unsigned1 DEF Byte
<1>5. Signed(Data(i - 4)) = 0 /\ Signed(Data(i - 3)) = 255
  <2>1. 0 \in 0 .. 127 /\ 255 \in Byte /\ 255 + 256 * 0 = 255
    BY DEF Byte
  <2>2. Signed(Data(i - 4)) = 0
    BY <1>3, <2>1, Signed1
  <2>3. Signed(Data(i - 3)) = 255
    BY <1>3, <2>1, Signed2
  <2>4. QED
    BY <2>2, <2>3
<1>6. QED
  BY <1>1, <1>2, <1>4, <1>5, Reads

Field(i) == [tag \in Tags |-> ReadItem(i, tag)]
FieldOf == [csmr |-> 30, tc |-> 40]

\* Of the fields only one has the id of a report, and it has its length.
LEMMA OneField ==
  ASSUME NEW r \in Reports, NEW bytes, bytes[1] = ReportId[r], Len(bytes) = 33
  PROVE  {g \in Fields : Describes(g, bytes)} = {Field(FieldOf[r])}
<1>1. \A i \in Inputs : Field(i)["ReportId"] = bytes[1] <=> i = FieldOf[r]
  BY InputItems, Ids DEF Field, FieldOf, Tags, Reports, ReportId
<1>2. FieldOf[r] \in {30, 40} /\ FieldOf[r] \in Inputs
  BY InputItems DEF FieldOf, Reports
<1>3. Field(FieldOf[r])["ReportSize"] * Field(FieldOf[r])["ReportCount"] = 8 * (Len(bytes) - 1)
  BY <1>2, KeyFields DEF Field, Tags
<1>4. \A i \in Inputs : Describes(Field(i), bytes) <=> i = FieldOf[r]
  BY <1>1, <1>3 DEF Describes
<1>5. Fields = {Field(i) : i \in Inputs}
  BY DEF Fields, Field
<1>6. QED
  BY <1>2, <1>4, <1>5

\* An id before an array: its length, its first byte and the rest.
LEMMA IdFirst ==
  ASSUME NEW n \in Nat, NEW array \in [1 .. n -> Byte], NEW id \in Byte
  PROVE  /\ Len(<<id>> \o array) = n + 1 /\ (<<id>> \o array)[1] = id
         /\ ToSet(Tail(<<id>> \o array)) = {array[p] : p \in 1 .. n}
<1>1. array \in Seq(Byte) /\ Len(array) = n
  OBVIOUS
<1>2. /\ <<id>> \o array \in Seq(Byte) /\ Len(<<id>> \o array) = n + 1
      /\ \A i \in 1 .. n + 1 : (<<id>> \o array)[i] = IF i = 1 THEN id ELSE array[i - 1]
  BY <1>1
<1>3. PICK bytes \in Seq(Byte) : bytes = <<id>> \o array
  BY <1>2
<1>4. /\ DOMAIN Tail(bytes) = 1 .. n
      /\ \A i \in 1 .. n : Tail(bytes)[i] = array[i]
  BY <1>2, <1>3
<1>5. ToSet(Tail(bytes)) = {array[p] : p \in 1 .. n}
  BY <1>4 DEF ToSet
<1>6. Len(bytes) = n + 1 /\ bytes[1] = id
  BY <1>2, <1>3
<1>7. QED
  BY <1>3, <1>5, <1>6

\* The places beyond those in use add no key.
LEMMA WholeContents ==
  ASSUME NEW array \in [Places -> Byte]
  PROVE  /\ Whole(array) \in [1 .. 32 -> Byte]
         /\ {Whole(array)[p] : p \in 1 .. 32} \ {0} = Contents(array)
<1>1. Places \subseteq 1 .. 32
  BY CountAssumption DEF Places
<1>2. \A p \in 1 .. 32 : Whole(array)[p] = IF p \in Places THEN array[p] ELSE 0
  BY DEF Whole
<1>3. Whole(array) \in [1 .. 32 -> Byte]
  BY <1>2 DEF Whole, Byte
<1>4. {Whole(array)[p] : p \in 1 .. 32} \ {0} = Contents(array)
  BY <1>1, <1>2 DEF Contents
<1>5. QED
  BY <1>3, <1>4

\* The host reads a report byte for byte: its keys are the array's, on the page
\* the driver means.
LEMMA Decoded ==
  ASSUME NEW r \in Reports, NEW array \in [Places -> Byte]
  PROVE  Decode(Bytes(r, array)) = {<<Page[r], c>> : c \in Contents(array)}
<1> DEFINE whole == Whole(array)
           bytes == <<ReportId[r]>> \o whole
           f == Field(FieldOf[r])
<1>1. /\ Len(bytes) = 33 /\ bytes[1] = ReportId[r]
      /\ ToSet(Tail(bytes)) = {whole[p] : p \in 1 .. 32}
  <2>1. ReportId[r] \in Byte
    BY DEF Reports, ReportId, Byte
  <2>2. PICK n \in Nat : n = 32
    OBVIOUS
  <2>3. whole \in [1 .. n -> Byte]
    BY <2>2, WholeContents
  <2>4. /\ Len(bytes) = n + 1 /\ bytes[1] = ReportId[r]
        /\ ToSet(Tail(bytes)) = {whole[p] : p \in 1 .. n}
    BY <2>1, <2>3, IdFirst
  <2> HIDE DEF whole, bytes
  <2>5. QED
    BY <2>2, <2>4
<1>3. {g \in Fields : Describes(g, bytes)} = {f}
  BY <1>1, OneField
<1>4. FieldOf[r] \in {30, 40} /\ Page[r] = IF FieldOf[r] = 30 THEN 12 ELSE 255
  BY DEF FieldOf, Reports, Page
<1>5. \A v \in Byte : Within(f, v)
  BY <1>4, KeyFields DEF Field, Tags, Within, Byte
<1>6. f["UsagePage"] = Page[r]
  BY <1>4, KeyFields DEF Field, Tags
<1>7. whole \in [1 .. 32 -> Byte] /\ {whole[p] : p \in 1 .. 32} \ {0} = Contents(array)
  BY WholeContents
<1>8. Decode(bytes) = UNION { { <<g["UsagePage"], v>> :
                                v \in {w \in ToSet(Tail(bytes)) \ {0} : Within(g, w)} } : g \in {f} }
  BY <1>3 DEF Decode
<1>9. {w \in ToSet(Tail(bytes)) \ {0} : Within(f, w)} = Contents(array)
  <2>1. \A w \in ToSet(Tail(bytes)) : w \in Byte
    BY <1>1, <1>7
  <2>2. ToSet(Tail(bytes)) \ {0} = Contents(array)
    BY <1>1, <1>7
  <2> HIDE DEF bytes, f
  <2>3. QED
    BY <1>5, <2>1, <2>2
<1>10. QED
  <2> HIDE DEF f
  <2>1. Decode(bytes) = {<<Page[r], v>> : v \in Contents(array)}
    BY <1>6, <1>8, <1>9
  <2>2. QED
    BY <2>1 DEF Bytes

-----------------------------------------------------------------------------
(***************************************************************************)
(* The steps of a stroke, after Dispatch.                                  *)
(***************************************************************************)
InStroke(t) ==
  \/ Exists(t) \/ FindFree(t) \/ Store(t) \/ Erase(t) \/ EraseStore(t)
  \/ CopyReport(t) \/ PostFails(t) \/ HandleReport(t)

\* Whatever a handler does inside its stroke, it leaves the others and the other
\* report alone.
LEMMA OthersStay ==
  ASSUME TypeOK, NEW t \in Handlers, InStroke(t)
  PROVE  /\ stage[t] # "idle" /\ stroke' = stroke /\ crowded' = crowded
         /\ \A u \in Handlers : u # t => /\ stage'[u] = stage[u] /\ place'[u] = place[u]
                                         /\ copy'[u] = copy[u]
         /\ \A r \in Reports : r # Report(t) => keys'[r] = keys[r] /\ host'[r] = host[r]
<1> USE DEF TypeOK, Goto, Break, Advance, AfterPost
<1>1. CASE Exists(t)
  BY <1>1 DEF Exists
<1>2. CASE FindFree(t)
  BY <1>2 DEF FindFree
<1>3. CASE Store(t)
  BY <1>3 DEF Store, Put
<1>4. CASE Erase(t)
  BY <1>4 DEF Erase
<1>5. CASE EraseStore(t)
  BY <1>5 DEF EraseStore, Put
<1>6. CASE CopyReport(t)
  BY <1>6 DEF CopyReport
<1>7. CASE PostFails(t)
  BY <1>7 DEF PostFails
<1>8. CASE HandleReport(t)
  BY <1>8 DEF HandleReport
<1>9. QED
  BY <1>1, <1>2, <1>3, <1>4, <1>5, <1>6, <1>7, <1>8 DEF InStroke

\* So whoever had a report to itself still has, and the others know what they
\* knew.
LEMMA OthersKnow ==
  ASSUME IInv, NEW t \in Handlers, InStroke(t)
  PROVE  Single' /\ \A u \in Handlers : u # t => LoneAt(u)'
<1> USE DEF IInv
<1>1. \A u \in Handlers : Report(u)' = Report(u) /\ Code(u)' = Code(u) /\ Report(u) \in Reports
  BY OthersStay, InHand DEF Report, Code
<1>2. \A r \in Reports : Users(r)' \subseteq Users(r)
  BY <1>1, OthersStay DEF Users
<1>3. Single'
  BY <1>2, OthersStay DEF Single
<1>4. ASSUME NEW u \in Handlers, u # t, stage[u] # "idle", Report(u) \notin crowded
      PROVE  keys'[Report(u)] = keys[Report(u)]
  <2>1. Report(u) # Report(t)
    BY <1>1, <1>4, OthersStay DEF Single, Users
  <2>2. QED
    BY <1>1, <2>1, OthersStay
<1>5. ASSUME NEW u \in Handlers, u # t PROVE LoneAt(u)'
  BY <1>1, <1>4, <1>5, OthersStay DEF Lone, LoneAt, Contents
<1>6. QED
  BY <1>3, <1>5

\* A handler that has the report to itself and is past its erase left it empty.
LEMMA LeftEmpty ==
  ASSUME IInv, NEW r \in Reports,
         \A t \in Users(r) : stage[t] \in {"copyUp", "sendUp"}
  PROVE  Contents(keys[r]) = {}
  BY DEF IInv, Owned, Owner, WillErase, Users, Contents

\* What stays put keeps its owner.
LEMMA OwnersStay ==
  ASSUME IInv, NEW t \in Handlers, InStroke(t),
         \A p \in Places : /\ keys'[Report(t)][p] \in {0, keys[Report(t)][p]}
                           /\ keys'[Report(t)][p] # 0 /\ Owner(t, Report(t), p) => WillErase(t, p)'
  PROVE  Owned'
<1> SUFFICES ASSUME NEW r \in Reports, NEW p \in Places, keys'[r][p] # 0
             PROVE  \E u \in Handlers : Owner(u, r, p)'
  BY DEF Owned
<1> USE DEF IInv
<1>1. keys'[r][p] = keys[r][p]
  BY OthersStay
<1>2. PICK u \in Handlers : Owner(u, r, p)
  BY <1>1 DEF Owned
<1>3. Report(u)' = Report(u) /\ Code(u)' = Code(u)
  BY OthersStay DEF Report, Code
<1>4. WillErase(u, p)'
  <2>1. CASE u = t
    BY <1>2, <2>1 DEF Owner
  <2>2. CASE u # t
    BY <1>2, <2>2, OthersStay DEF Owner, WillErase
  <2>3. QED
    BY <2>1, <2>2
<1>5. QED
  BY <1>1, <1>2, <1>3, <1>4 DEF Owner

-----------------------------------------------------------------------------
(***************************************************************************)
(* The invariant, action by action.                                        *)
(***************************************************************************)
LEMMA DispatchKeeps ==
  ASSUME IInv, NEW t \in Handlers, NEW s \in Strokes, Dispatch(t, s)
  PROVE  IInv'
<1> USE DEF IInv
<1>1. /\ stage[t] = "idle" /\ stage' = [stage EXCEPT ![t] = "exists"]
      /\ stroke' = [stroke EXCEPT ![t] = s]
      /\ UNCHANGED <<place, copy, keys, host>>
  BY DEF Dispatch, Goto
<1>2. crowded' = IF Users(s[1]) = {} THEN crowded \ {s[1]} ELSE crowded \cup {s[1]}
  BY DEF Dispatch
<1>3. s[1] \in Reports
  BY CodesAreBytes
<1>4. /\ Report(t)' = s[1]
      /\ \A u \in Handlers : u # t => /\ Report(u)' = Report(u) /\ Code(u)' = Code(u)
                                      /\ stage'[u] = stage[u]
  BY <1>1 DEF TypeOK, Report, Code
<1>5. \A r \in Reports : Users(r)' = IF r = s[1] THEN Users(r) \cup {t} ELSE Users(r)
  BY <1>1, <1>4 DEF Users, TypeOK
<1>6. TypeOK'
  <2>1. Contents(copy'[t]) \subseteq Dispatched[s[1]]
    BY <1>1 DEF Fresh
  <2>2. QED
    BY <1>1, <1>2, <1>3, <1>4, <2>1 DEF TypeOK, Stages
<1>7. Fresh'
  <2>1. ASSUME NEW u \in Handlers
        PROVE  stage'[u] = (IF u = t THEN "exists" ELSE stage[u])
    BY <1>1 DEF TypeOK
  <2>2. copy' = copy /\ place' = place /\ \A u \in Handlers : Contents(copy[u])' = Contents(copy[u])
    BY <1>1 DEF Contents
  <2>3. QED
    BY <1>1, <2>1, <2>2 DEF Fresh
<1>8. Owned'
  BY <1>1, <1>4 DEF Owned, Owner, WillErase, TypeOK
<1>9. Single'
  BY <1>2, <1>3, <1>5 DEF Single
<1>10. ASSUME NEW u \in Handlers PROVE LoneAt(u)'
  <2>1. CASE u = t
    <3>1. s[1] \notin crowded' => Users(s[1]) = {}
      BY <1>2
    <3>2. Users(s[1]) = {} => Contents(keys[s[1]]) = {}
      BY <1>3, LeftEmpty
    <3>3. stage'[t] = "exists" /\ keys'[Report(t)'] = keys[s[1]]
      BY <1>1, <1>4 DEF TypeOK
    <3>4. s[1] \notin crowded' => Contents(keys[s[1]])' = {}
      BY <1>1, <3>1, <3>2 DEF Contents
    <3>5. QED
      BY <1>4, <2>1, <3>3, <3>4 DEF LoneAt, Contents
  <2>2. CASE u # t
    <3>1. stage[u] # "idle" /\ Report(u) \notin crowded' => Report(u) \notin crowded
      BY <1>2 DEF Users
    <3>2. QED
      BY <1>1, <1>4, <2>2, <3>1 DEF Lone, LoneAt, Contents
  <2>3. QED
    BY <2>1, <2>2
<1>11. QED
  BY <1>6, <1>7, <1>8, <1>9, <1>10 DEF Lone

\* What has to be shown of a step inside a stroke, once OthersKnow is known.
LEMMA StrokeKeeps ==
  ASSUME IInv, NEW t \in Handlers, InStroke(t), TypeOK', Fresh', Owned', LoneAt(t)'
  PROVE  IInv'
  BY OthersKnow DEF IInv, Lone

\* The places are numbered from one.
LEMMA CountIsNat == Count \in Nat /\ 1 \in Places
<1>1. PICK n \in Nat : n = 32
  OBVIOUS
<1>2. Count \in 1 .. n
  BY <1>1, CountAssumption
<1>3. QED
  BY <1>2 DEF Places

\* A loop goes on or ends, and stays at a place of the array.
LEMMA Advances ==
  ASSUME TypeOK, NEW t \in Handlers, NEW loop \in Stages, NEW done \in Stages,
         Advance(t, loop, done)
  PROVE  /\ place' \in [Handlers -> Places] /\ stage' \in [Handlers -> Stages]
         /\ \/ stage'[t] = loop /\ place'[t] = place[t] + 1
            \/ stage'[t] = done /\ place'[t] = 1 /\ place[t] = Count
<1>1. place[t] \in Places /\ Count \in Nat /\ 1 \in Places
  BY CountIsNat DEF TypeOK
<1>2. CASE place[t] < Count
  <2>1. place[t] + 1 \in Places
    BY <1>1, <1>2 DEF Places
  <2>2. place' = [place EXCEPT ![t] = @ + 1] /\ stage' = [stage EXCEPT ![t] = loop]
    BY <1>2 DEF Advance, Goto
  <2>3. QED
    BY <2>1, <2>2 DEF TypeOK
<1>3. CASE ~ place[t] < Count
  <2>1. place[t] = Count
    BY <1>1, <1>3 DEF Places
  <2>2. place' = [place EXCEPT ![t] = 1] /\ stage' = [stage EXCEPT ![t] = done]
    BY <1>3 DEF Advance, Goto
  <2>3. QED
    BY <1>1, <2>1, <2>2 DEF TypeOK
<1>4. QED
  BY <1>2, <1>3

\* The comparisons of insert and erase change nothing but where the loop is.
LEMMA ScanKeeps ==
  ASSUME IInv, NEW t \in Handlers, Exists(t) \/ FindFree(t) \/ Erase(t)
  PROVE  IInv'
<1> USE DEF IInv
<1>1. InStroke(t) /\ UNCHANGED <<stroke, copy, keys, host, crowded>>
  BY DEF InStroke, Exists, FindFree, Erase
<1>2. /\ Report(t) \in Reports /\ Code(t) \in 1 .. 255 /\ Key(t) = Code(t)
      /\ place[t] \in Places /\ 1 \in Places
      /\ Here(t) = keys[Report(t)][place[t]]
  BY InHand, CountIsNat
<1>3. /\ place' \in [Handlers -> Places] /\ stage' \in [Handlers -> Stages]
      /\ \/ /\ stage[t] = "exists"
            /\ \/ Here(t) = Key(t) /\ stage'[t] = "copyDown" /\ place'[t] = 1
               \/ Here(t) # Key(t) /\ stage'[t] = "exists"
               \/ Here(t) # Key(t) /\ stage'[t] = "find"
         \/ /\ stage[t] = "find"
            /\ \/ Here(t) = 0 /\ stage'[t] = "store"
               \/ Here(t) # 0 /\ stage'[t] = "find"
               \/ Here(t) # 0 /\ stage'[t] = "copyDown" /\ place'[t] = 1
         \/ /\ stage[t] = "erase"
            /\ \/ Here(t) = Key(t) /\ stage'[t] = "eraseStore" /\ place'[t] = place[t]
               \/ Here(t) # Key(t) /\ stage'[t] = "erase" /\ place'[t] = place[t] + 1
               \/ Here(t) # Key(t) /\ stage'[t] = "copyUp" /\ place'[t] = 1 /\ place[t] = Count
  <2>1. CASE Exists(t)
    <3>1. CASE Here(t) = Key(t)
      BY <1>2, <2>1, <3>1 DEF Exists, Break, Goto, TypeOK, Stages
    <3>2. CASE Here(t) # Key(t)
      BY <2>1, <3>2, Advances DEF Exists, Stages
    <3>3. QED
      BY <3>1, <3>2
  <2>2. CASE FindFree(t)
    <3>1. CASE Here(t) = 0
      BY <2>2, <3>1 DEF FindFree, Goto, TypeOK, Stages
    <3>2. CASE Here(t) # 0
      BY <2>2, <3>2, Advances DEF FindFree, Stages
    <3>3. QED
      BY <3>1, <3>2
  <2>3. CASE Erase(t)
    <3>1. CASE Here(t) = Key(t)
      BY <2>3, <3>1 DEF Erase, Goto, TypeOK, Stages
    <3>2. CASE Here(t) # Key(t)
      BY <2>3, <3>2, Advances DEF Erase, Stages
    <3>3. QED
      BY <3>1, <3>2
  <2>4. QED
    BY <2>1, <2>2, <2>3
<1>4. /\ \A u \in Handlers : u # t => stage'[u] = stage[u] /\ place'[u] = place[u]
      /\ Report(t)' = Report(t) /\ Code(t)' = Code(t)
  BY <1>1, OthersStay DEF Report, Code
<1>5. TypeOK'
  BY <1>1, <1>3 DEF TypeOK, Contents, Report
<1>6. Fresh'
  BY <1>1, <1>3, <1>4 DEF Fresh, Contents
<1>7. Owned'
  <2> SUFFICES ASSUME NEW p \in Places, Owner(t, Report(t), p), keys[Report(t)][p] # 0
               PROVE  WillErase(t, p)'
    BY <1>1, OwnersStay
  <2>1. CASE stage[t] # "erase"
    BY <1>3, <2>1 DEF WillErase
  <2>2. CASE stage[t] = "erase"
    <3>1. place[t] <= p /\ keys[Report(t)][p] = Code(t)
      BY <2>2 DEF Owner, WillErase
    <3>2. p \in 1 .. Count /\ place[t] \in 1 .. Count /\ Count \in Nat
      BY <1>2, CountIsNat DEF Places
    <3>3. Here(t) # Key(t) => p # place[t]
      BY <1>2, <3>1
    <3>4. QED
      BY <1>3, <2>2, <3>1, <3>2, <3>3 DEF WillErase
  <2>3. QED
    BY <2>1, <2>2
<1>8. LoneAt(t)'
  <2> SUFFICES ASSUME Report(t) \notin crowded, stage'[t] \in {"exists", "find", "store", "copyDown"}
               PROVE  LoneAt(t)'
    BY <1>1, <1>3, <1>4 DEF LoneAt
  <2>1. Contents(keys[Report(t)]) = {}
    BY <1>3 DEF Lone, LoneAt
  <2>2. Here(t) = 0
    BY <1>2, <2>1 DEF Contents
  <2>3. stage'[t] # "copyDown"
    BY <1>2, <1>3, <2>2
  <2>4. Contents(keys[Report(t)])' = {}
    BY <1>1, <1>4, <2>1 DEF Contents
  <2>5. QED
    BY <2>3, <2>4 DEF LoneAt
<1>9. QED
  BY <1>1, <1>5, <1>6, <1>7, <1>8, StrokeKeeps

\* Storing the key: whoever stores it still has it to take out.
LEMMA StoreKeeps ==
  ASSUME IInv, NEW t \in Handlers, Store(t)
  PROVE  IInv'
<1> USE DEF IInv
<1> DEFINE r == Report(t)
           k == Code(t)
           p == place[t]
<1>1. /\ InStroke(t) /\ stage[t] = "store" /\ UNCHANGED <<stroke, copy, host, crowded>>
      /\ place' = [place EXCEPT ![t] = 1] /\ stage' = [stage EXCEPT ![t] = "copyDown"]
  BY DEF InStroke, Store, Break, Goto
<1>2. /\ r \in Reports /\ k \in Dispatched[r] /\ k \in 1 .. 255 /\ k \in Byte
      /\ p \in Places /\ 1 \in Places /\ keys[r] \in [Places -> Byte]
  BY InHand, CountIsNat DEF Byte
<1>3. keys' = [keys EXCEPT ![r][p] = k]
  BY InHand DEF Store, Put
<1>4. r' = r /\ k' = k /\ \A u \in Handlers : Report(u)' = Report(u) /\ Code(u)' = Code(u)
  BY <1>1 DEF Report, Code
<1>5. /\ keys' \in [Reports -> [Places -> Byte]]
      /\ keys'[r] = [keys[r] EXCEPT ![p] = k]
      /\ \A q \in Reports : q # r => keys'[q] = keys[q]
  BY <1>2, <1>3 DEF TypeOK
<1> HIDE DEF r, k, p
<1>6. Contents(keys[r])' \subseteq Contents(keys[r]) \cup {k}
  BY <1>2, <1>4, <1>5 DEF Contents
<1>7. TypeOK'
  <2>1. stage' \in [Handlers -> Stages] /\ place' \in [Handlers -> Places]
    BY <1>1, <1>2 DEF TypeOK, Stages
  <2>2. ASSUME NEW q \in Reports
        PROVE  Contents(keys[q])' \subseteq Dispatched[q]
    <3>1. CASE q = r
      <4>1. Contents(keys[r]) \cup {k} \subseteq Dispatched[r]
        BY <1>2 DEF TypeOK
      <4>2. Contents(keys[q])' = Contents(keys[r])'
        BY <1>4, <3>1
      <4>3. QED
        BY <1>6, <3>1, <4>1, <4>2
    <3>2. CASE q # r
      BY <1>5, <3>2 DEF TypeOK, Contents
    <3>3. QED
      BY <3>1, <3>2
  <2>3. \A u \in Handlers : Contents(copy[u])' \subseteq Dispatched[Report(u)']
    BY <1>1, <1>4 DEF TypeOK, Contents
  <2>4. QED
    BY <1>1, <1>5, <2>1, <2>2, <2>3 DEF TypeOK
<1>8. Fresh'
  <2>1. \A u \in Handlers : Contents(copy[u])' = Contents(copy[u])
    BY <1>1 DEF Contents
  <2>2. QED
    BY <1>1, <2>1 DEF Fresh, TypeOK
<1>9. Owned'
  <2> SUFFICES ASSUME NEW q \in Reports, NEW i \in Places, keys'[q][i] # 0
               PROVE  \E u \in Handlers : Owner(u, q, i)'
    BY DEF Owned
  <2>1. CASE q = r /\ i = p
    <3>1. Report(t) = q /\ keys'[q][i] = k /\ k = Code(t)
      BY <1>2, <1>5, <2>1 DEF r, k
    <3>2. Owner(t, q, i)'
      BY <1>1, <1>4, <3>1 DEF Owner, WillErase, TypeOK
    <3>3. QED
      BY <3>2
  <2>2. CASE ~ (q = r /\ i = p)
    <3>1. keys'[q][i] = keys[q][i]
      BY <1>2, <1>5, <2>2
    <3>2. PICK u \in Handlers : Owner(u, q, i)
      BY <3>1 DEF Owned
    <3>3. WillErase(u, i)'
      BY <1>1, <3>2 DEF Owner, WillErase, TypeOK
    <3>4. QED
      BY <1>4, <3>1, <3>2, <3>3 DEF Owner
  <2>3. QED
    BY <2>1, <2>2
<1>10. LoneAt(t)'
  <2> SUFFICES ASSUME r \notin crowded
               PROVE  Contents(keys[r])' = {k}
    BY <1>1, <1>4 DEF LoneAt, TypeOK, r, k, Contents
  <2>1. Contents(keys[r]) = {}
    BY <1>1 DEF Lone, LoneAt, r
  <2>2. keys'[r][p] = k /\ k # 0
    BY <1>2, <1>5
  <2>3. k \in Contents(keys[r])'
    BY <1>2, <1>4, <2>2 DEF Contents
  <2>4. QED
    BY <1>6, <2>1, <2>3
<1>11. QED
  BY <1>1, <1>7, <1>8, <1>9, <1>10, StrokeKeeps

\* Emptying a place: it needs no owner, and the next ones are still to come.
LEMMA EraseStoreKeeps ==
  ASSUME IInv, NEW t \in Handlers, EraseStore(t)
  PROVE  IInv'
<1> USE DEF IInv
<1> DEFINE r == Report(t)
           p == place[t]
<1>1. InStroke(t) /\ stage[t] = "eraseStore" /\ UNCHANGED <<stroke, copy, host, crowded>>
  BY DEF InStroke, EraseStore
<1>2. r \in Reports /\ p \in Places /\ keys[r] \in [Places -> Byte]
  BY InHand
<1>3. keys' = [keys EXCEPT ![r][p] = 0]
  BY DEF EraseStore, Put
<1>4. /\ place' \in [Handlers -> Places] /\ stage' \in [Handlers -> Stages]
      /\ \/ stage'[t] = "erase" /\ place'[t] = p + 1
         \/ stage'[t] = "copyUp" /\ place'[t] = 1 /\ p = Count
  BY Advances DEF EraseStore, Stages
<1>5. /\ keys' \in [Reports -> [Places -> Byte]]
      /\ keys'[r] = [keys[r] EXCEPT ![p] = 0]
      /\ \A q \in Reports : q # r => keys'[q] = keys[q]
  BY <1>2, <1>3 DEF TypeOK, Byte
<1>6. /\ \A u \in Handlers : u # t => stage'[u] = stage[u] /\ place'[u] = place[u]
      /\ \A u \in Handlers : Report(u)' = Report(u) /\ Code(u)' = Code(u)
      /\ r' = r
  BY <1>1, OthersStay DEF Report, Code
<1> HIDE DEF r, p
<1>7. TypeOK'
  <2>1. \A q \in Reports : Contents(keys[q])' \subseteq Contents(keys[q])
    BY <1>2, <1>5 DEF Contents
  <2>2. \A u \in Handlers : Contents(copy[u])' \subseteq Dispatched[Report(u)']
    BY <1>1, <1>6 DEF TypeOK, Contents
  <2>3. QED
    BY <1>1, <1>4, <1>5, <2>1, <2>2 DEF TypeOK
<1>8. Fresh'
  <2>1. \A u \in Handlers : Contents(copy[u])' = Contents(copy[u])
    BY <1>1 DEF Contents
  <2>2. QED
    BY <1>1, <1>4, <1>6, <2>1 DEF Fresh
<1>9. Owned'
  <2> SUFFICES ASSUME NEW i \in Places, keys'[r][i] # 0, Owner(t, r, i)
               PROVE  WillErase(t, i)'
    BY <1>1, <1>2, <1>5, OwnersStay DEF r
  <2>1. i # p /\ p <= i
    BY <1>1, <1>2, <1>5 DEF Owner, WillErase, p
  <2>2. i \in 1 .. Count /\ p \in 1 .. Count /\ Count \in Nat
    BY <1>2, CountIsNat DEF Places
  <2>3. QED
    BY <1>4, <2>1, <2>2 DEF WillErase
<1>10. LoneAt(t)'
  BY <1>4 DEF LoneAt
<1>11. QED
  BY <1>1, <1>7, <1>8, <1>9, <1>10, StrokeKeeps

\* A copy is what the array is at that instant.
LEMMA CopyKeeps ==
  ASSUME IInv, NEW t \in Handlers, CopyReport(t)
  PROVE  IInv'
<1> USE DEF IInv
<1>1. /\ InStroke(t) /\ stage[t] \in {"copyDown", "copyUp"}
      /\ UNCHANGED <<stroke, place, keys, host, crowded>>
      /\ copy' = [copy EXCEPT ![t] = keys[Report(t)]]
      /\ stage' = [stage EXCEPT ![t] = IF stage[t] = "copyDown" THEN "sendDown" ELSE "sendUp"]
  BY DEF InStroke, CopyReport, Goto
<1>2. Report(t) \in Reports /\ keys[Report(t)] \in [Places -> Byte]
  BY InHand
<1>3. \A u \in Handlers : Report(u)' = Report(u) /\ Code(u)' = Code(u)
  BY <1>1 DEF Report, Code
<1>4. /\ copy'[t] = keys[Report(t)]
      /\ \A u \in Handlers : u # t => copy'[u] = copy[u] /\ stage'[u] = stage[u]
      /\ stage'[t] = IF stage[t] = "copyDown" THEN "sendDown" ELSE "sendUp"
  BY <1>1 DEF TypeOK
<1>5. TypeOK'
  <2>1. copy' \in [Handlers -> [Places -> Byte]] /\ stage' \in [Handlers -> Stages]
    BY <1>1, <1>2 DEF TypeOK, Stages
  <2>2. ASSUME NEW u \in Handlers
        PROVE  Contents(copy[u])' \subseteq Dispatched[Report(u)']
    BY <1>2, <1>3, <1>4 DEF TypeOK, Contents
  <2>3. QED
    BY <1>1, <2>1, <2>2 DEF TypeOK, Contents
<1>6. Fresh'
  <2>1. \A u \in Handlers : u # t => Contents(copy[u])' = Contents(copy[u])
    BY <1>4 DEF Contents
  <2>2. QED
    BY <1>1, <1>4, <2>1 DEF Fresh
<1>7. Owned'
  BY <1>1, <1>4, OwnersStay DEF Owner, WillErase
<1>8. LoneAt(t)'
  <2> SUFFICES ASSUME Report(t) \notin crowded PROVE LoneAt(t)'
    BY <1>1, <1>3 DEF LoneAt
  <2>1. Contents(keys[Report(t)])' = Contents(keys[Report(t)])
    BY <1>1, <1>3 DEF Contents
  <2>2. Contents(copy[t])' = Contents(keys[Report(t)])
    BY <1>4 DEF Contents
  <2>3. CASE stage[t] = "copyDown"
    <3>1. Contents(keys[Report(t)]) = {Code(t)}
      BY <2>3 DEF Lone, LoneAt
    <3>2. QED
      BY <1>3, <1>4, <2>1, <2>2, <2>3, <3>1 DEF LoneAt
  <2>4. CASE stage[t] = "copyUp"
    <3>1. \A u \in Users(Report(t)) : stage[u] \in {"copyUp", "sendUp"}
      <4>1. t \in Users(Report(t))
        BY <2>4 DEF Users
      <4>2. QED
        BY <1>2, <2>4, <4>1 DEF Single
    <3>2. Contents(keys[Report(t)]) = {}
      BY <1>2, <3>1, LeftEmpty
    <3>3. QED
      BY <1>3, <1>4, <2>2, <2>4, <3>2 DEF LoneAt
  <2>5. QED
    BY <1>1, <2>3, <2>4
<1>9. QED
  BY <1>1, <1>5, <1>6, <1>7, <1>8, StrokeKeeps

\* What comes after a post, that got through or not.
LEMMA AfterPosts ==
  ASSUME IInv, NEW t \in Handlers, AfterPost(t), UNCHANGED <<stroke, place, keys, crowded>>,
         InStroke(t), stage[t] \in {"copyDown", "sendDown", "copyUp", "sendUp"}
  PROVE  /\ stage' \in [Handlers -> Stages]
         /\ \A u \in Handlers : u # t => stage'[u] = stage[u]
         /\ stage'[t] \in {"erase", "idle"}
         /\ Owned' /\ LoneAt(t)'
<1> USE DEF IInv
<1>1. /\ stage' \in [Handlers -> Stages] /\ stage'[t] \in {"erase", "idle"}
      /\ stage[t] \in {"copyDown", "sendDown"} => stage'[t] = "erase"
  BY DEF AfterPost, Goto, TypeOK, Stages
<1>2. Owned'
  <2> SUFFICES ASSUME NEW p \in Places, Owner(t, Report(t), p)
               PROVE  WillErase(t, p)'
    BY OwnersStay
  <2>1. stage[t] \in {"copyDown", "sendDown"}
    BY DEF Owner, WillErase
  <2>2. place[t] = 1 /\ p \in 1 .. Count /\ Count \in Nat
    BY <2>1, CountIsNat DEF Fresh, Places
  <2>3. QED
    BY <1>1, <2>1, <2>2 DEF WillErase
<1>3. LoneAt(t)'
  BY <1>1 DEF LoneAt
<1>4. QED
  BY <1>1, <1>2, <1>3, OthersStay

LEMMA PostFailsKeeps ==
  ASSUME IInv, NEW t \in Handlers, PostFails(t)
  PROVE  IInv'
<1> USE DEF IInv
<1>1. /\ InStroke(t) /\ AfterPost(t) /\ stage[t] \in {"copyDown", "copyUp"}
      /\ UNCHANGED <<stroke, place, copy, keys, host, crowded>>
  BY DEF InStroke, PostFails
<1>2. /\ stage' \in [Handlers -> Stages] /\ Owned' /\ LoneAt(t)'
      /\ \A u \in Handlers : u # t => stage'[u] = stage[u]
      /\ stage'[t] \in {"erase", "idle"}
  BY <1>1, AfterPosts
<1>3. TypeOK'
  <2>1. /\ \A u \in Handlers : Contents(copy[u])' = Contents(copy[u]) /\ Report(u)' = Report(u)
        /\ \A q \in Reports : Contents(keys[q])' = Contents(keys[q])
    BY <1>1 DEF Contents, Report
  <2>2. QED
    BY <1>1, <1>2, <2>1 DEF TypeOK
<1>4. Fresh'
  BY <1>1, <1>2 DEF Fresh, Contents
<1>5. QED
  BY <1>1, <1>2, <1>3, <1>4, StrokeKeeps

\* A post shows the host the keys of the copy.
LEMMA PostShows ==
  ASSUME TypeOK, NEW t \in Handlers, HandleReport(t)
  PROVE  /\ Report(t) \in Reports
         /\ host' = [host EXCEPT ![Report(t)] =
                        {<<Page[Report(t)], c>> : c \in Contents(copy[t])}]
<1>1. Report(t) \in Reports /\ copy[t] \in [Places -> Byte]
  BY InHand DEF TypeOK
<1>2. QED
  BY <1>1, Decoded DEF HandleReport

LEMMA HandleReportKeeps ==
  ASSUME IInv, NEW t \in Handlers, HandleReport(t)
  PROVE  IInv'
<1> USE DEF IInv
<1>1. /\ InStroke(t) /\ AfterPost(t) /\ stage[t] \in {"sendDown", "sendUp"}
      /\ UNCHANGED <<stroke, place, keys, crowded>>
      /\ copy' = [copy EXCEPT ![t] = Empty]
  BY DEF InStroke, HandleReport
<1>2. /\ stage' \in [Handlers -> Stages] /\ Owned' /\ LoneAt(t)'
      /\ \A u \in Handlers : u # t => stage'[u] = stage[u]
      /\ stage'[t] \in {"erase", "idle"}
  BY <1>1, AfterPosts
<1>3. Empty \in [Places -> Byte] /\ Contents(Empty) = {}
  BY DEF Empty, Contents, Byte
<1>4. \A u \in Handlers : copy'[u] = IF u = t THEN Empty ELSE copy[u]
  BY <1>1 DEF TypeOK
<1>5. \A u \in Handlers : Contents(copy[u])' = IF u = t THEN {} ELSE Contents(copy[u])
  BY <1>3, <1>4 DEF Contents
<1>6. TypeOK'
  <2>1. copy' \in [Handlers -> [Places -> Byte]]
    BY <1>1, <1>3 DEF TypeOK
  <2>2. \A q \in Reports : Contents(keys[q])' \subseteq Dispatched[q]
    BY <1>1 DEF TypeOK, Contents
  <2>3. \A u \in Handlers : Contents(copy[u])' \subseteq Dispatched[Report(u)']
    BY <1>1, <1>5 DEF TypeOK, Report
  <2>4. /\ \A q \in Reports : host'[q] \subseteq {Page[q]} \X Dispatched[q]
        /\ host' \in [Reports -> SUBSET ({12, 255} \X Byte)]
    <3>1. Contents(copy[t]) \subseteq Dispatched[Report(t)]
      BY DEF TypeOK
    <3>2. {<<Page[Report(t)], c>> : c \in Contents(copy[t])}
            \subseteq {Page[Report(t)]} \X Dispatched[Report(t)]
      BY <3>1
    <3>3. \A q \in Reports : Page[q] \in {12, 255} /\ Dispatched[q] \subseteq Byte
      BY DEF Reports, Page, Dispatched, Byte
    <3>4. \A q \in Reports : {Page[q]} \X Dispatched[q] \subseteq {12, 255} \X Byte
      BY <3>3
    <3>5. \A q \in Reports : host'[q] \subseteq {Page[q]} \X Dispatched[q]
      BY <3>2, PostShows DEF TypeOK
    <3>6. host' \in [Reports -> SUBSET ({12, 255} \X Byte)]
      BY <3>2, <3>4, PostShows DEF TypeOK
    <3>7. QED
      BY <3>5, <3>6
  <2>5. QED
    BY <1>1, <1>2, <2>1, <2>2, <2>3, <2>4 DEF TypeOK
<1>7. Fresh'
  BY <1>1, <1>2, <1>5 DEF Fresh
<1>8. QED
  BY <1>1, <1>2, <1>6, <1>7, StrokeKeeps

-----------------------------------------------------------------------------
(***************************************************************************)
(* The theorems.                                                           *)
(***************************************************************************)
LEMMA StepKeeps == IInv /\ [Next]_vars => IInv'
<1> SUFFICES ASSUME IInv, [Next]_vars PROVE IInv'
  OBVIOUS
<1>1. CASE UNCHANGED vars
  <2>1. /\ \A u \in Handlers : /\ Contents(copy[u])' = Contents(copy[u])
                               /\ Report(u)' = Report(u) /\ Code(u)' = Code(u)
        /\ \A q \in Reports : Contents(keys[q])' = Contents(keys[q]) /\ Users(q)' = Users(q)
    BY <1>1 DEF vars, Contents, Report, Code, Users
  <2>2. TypeOK'
    BY <1>1, <2>1 DEF vars, IInv, TypeOK
  <2>3. Fresh'
    BY <1>1, <2>1 DEF vars, IInv, Fresh
  <2>4. Owned'
    BY <1>1, <2>1 DEF vars, IInv, Owned, Owner, WillErase
  <2>5. Single'
    BY <1>1, <2>1 DEF vars, IInv, Single
  <2>6. ASSUME NEW u \in Handlers PROVE LoneAt(u)'
    <3>1. LoneAt(u)
      BY DEF IInv, Lone
    <3>2. Contents(keys[Report(u)])' = Contents(keys[Report(u)])
      BY <1>1, <2>1 DEF vars, Contents
    <3>3. stage' = stage /\ crowded' = crowded
      BY <1>1 DEF vars
    <3>4. QED
      BY <2>1, <3>1, <3>2, <3>3 DEF LoneAt
  <2>7. QED
    BY <2>2, <2>3, <2>4, <2>5, <2>6 DEF IInv, Lone
<1>2. CASE Next
  <2>1. PICK t \in Handlers : Handle(t)
    BY <1>2 DEF Next
  <2>2. QED
    BY <2>1, DispatchKeeps, ScanKeeps, StoreKeeps, EraseStoreKeeps, CopyKeeps, PostFailsKeeps,
       HandleReportKeeps DEF Handle
<1>3. QED
  BY <1>1, <1>2

LEMMA InitHolds == Init => IInv
<1> SUFFICES ASSUME Init PROVE IInv
  OBVIOUS
<1>1. Contents(Empty) = {} /\ Empty \in [Places -> Byte] /\ 1 \in Places
  BY CountIsNat DEF Contents, Empty, Byte
<1>2. (\A t \in Handlers : copy[t] = Empty) /\ \A r \in Reports : keys[r] = Empty
  BY DEF Init
<1>3. TypeOK
  <2>1. \A t \in Handlers : Contents(copy[t]) = {}
    BY <1>1, <1>2
  <2>2. \A r \in Reports : Contents(keys[r]) = {} /\ host[r] = {}
    BY <1>1, <1>2 DEF Init
  <2>3. QED
    BY <1>1, <2>1, <2>2 DEF Init, TypeOK, Stages
<1>4. Fresh
  BY <1>1, <1>2 DEF Init, Fresh
<1>5. Owned
  BY <1>2 DEF Owned, Empty
<1>6. Single /\ Lone
  BY DEF Init, Single, Users, Lone, LoneAt
<1>7. QED
  BY <1>3, <1>4, <1>5, <1>6 DEF IInv

\* The invariant holds whatever the threads do to each other's keys.
THEOREM Inductive == Spec => []IInv
BY InitHolds, StepKeeps, PTL DEF Spec

\* For any number of handlers and any places in use: an array, its copies and the
\* host's view of it hold keys dispatched to that report only, although nothing
\* locks the arrays of HIDReport.hpp.
THEOREM TypeCorrect == Spec => []TypeOK
<1>1. IInv => TypeOK
  BY DEF IInv
<1>2. QED
  BY <1>1, Inductive, PTL

\* What the arrays hold when a report is not, or by one stroke only, in use.
LEMMA ExactNow == IInv => ArraysExact
<1> SUFFICES ASSUME IInv, NEW r \in Reports, Alone(r), Settled(r)
             PROVE  Contents(keys[r]) = Down(r)
  BY DEF ArraysExact
<1>1. CASE \A t \in Users(r) : stage[t] \in {"copyUp", "sendUp"}
  BY <1>1, LeftEmpty DEF Down
<1>2. CASE \E t \in Users(r) : stage[t] \notin {"copyUp", "sendUp"}
  <2>1. PICK t \in Users(r) : stage[t] \in {"copyDown", "sendDown"}
    BY <1>2 DEF Settled
  <2>2. r \notin crowded /\ t \in Handlers /\ Report(t) = r /\ stage[t] # "idle"
    BY <2>1 DEF Alone, Users
  <2>3. Users(r) = {t}
    BY <2>1, <2>2 DEF IInv, Single
  <2>4. Contents(keys[r]) = {Code(t)}
    BY <2>1, <2>2 DEF IInv, Lone, LoneAt
  <2>5. QED
    BY <2>1, <2>3, <2>4 DEF Down
<1>3. QED
  BY <1>1, <1>2

\* For any number of handlers, whose comparisons and stores on an array come in
\* any order: once nobody uses the report nothing is left in it, and a stroke
\* that then has it to itself finds and leaves exactly its own key in it.
THEOREM Exact == Spec => []ArraysExact
BY Inductive, ExactNow, PTL

\* Only a post delivers.
LEMMA DeliversPosts ==
  ASSUME TypeOK, NEW t \in Handlers, Delivers(t), [Next]_vars
  PROVE  HandleReport(t)
<1>1. PICK u \in Handlers : Handle(u)
  BY DEF Next, vars, Delivers
<1>2. \A s \in Strokes : ~ Dispatch(t, s)
  BY DEF Dispatch, Delivers
<1>3. u = t
  <2>1. \A s \in Strokes : Dispatch(u, s) => u = t
    BY DEF Dispatch, Goto, Delivers, TypeOK
  <2>2. InStroke(u) => u = t
    BY OthersStay DEF Delivers
  <2>3. QED
    BY <1>1, <2>1, <2>2 DEF Handle, InStroke
<1>4. QED
  BY <1>1, <1>2, <1>3 DEF Handle, Delivers, Exists, FindFree, Store, Erase, EraseStore,
                          CopyReport, PostFails

\* For any number of handlers and any age of a copy: a post shows the host the
\* keys of the copy, all of them and no other, on the page the driver means.
THEOREM ReadAsMeant == Spec => HostReadsBytes
<1>1. IInv /\ [Next]_vars =>
        \A t \in Handlers : Delivers(t) =>
          host'[Report(t)] = {<<Page[Report(t)], c>> : c \in Contents(copy[t])}
  <2> SUFFICES ASSUME IInv, [Next]_vars, NEW t \in Handlers, Delivers(t)
               PROVE  host'[Report(t)] = {<<Page[Report(t)], c>> : c \in Contents(copy[t])}
    OBVIOUS
  <2>1. HandleReport(t)
    BY DeliversPosts DEF IInv
  <2>2. QED
    BY <2>1, PostShows DEF IInv, TypeOK
<1>2. QED
  BY <1>1, Inductive, PTL DEF HostReadsBytes, Spec

\* For any number of handlers: a stroke that has its report to itself shows the
\* host its own key and then none, whatever strokes that were not alone have
\* left behind.
THEOREM Seen == Spec => HostSeesStrokes
<1>1. IInv /\ [Next]_vars =>
        \A t \in Handlers : Delivers(t) /\ Alone(Report(t)) =>
          host'[Report(t)] = {<<Page[Report(t)], c>> : c \in Down(Report(t))}
  <2> SUFFICES ASSUME IInv, [Next]_vars, NEW t \in Handlers, Delivers(t), Alone(Report(t))
               PROVE  host'[Report(t)] = {<<Page[Report(t)], c>> : c \in Down(Report(t))}
    OBVIOUS
  <2>1. HandleReport(t)
    BY DeliversPosts DEF IInv
  <2>2. host'[Report(t)] = {<<Page[Report(t)], c>> : c \in Contents(copy[t])}
    BY <2>1, PostShows DEF IInv, TypeOK
  <2>3. /\ stage[t] \in {"sendDown", "sendUp"} /\ t \in Users(Report(t))
        /\ Report(t) \notin crowded /\ Report(t) \in Reports
    BY <2>1, PostShows DEF Delivers, Users, Alone, IInv
  <2>4. Users(Report(t)) = {t}
    BY <2>3 DEF IInv, Single
  <2>5. Down(Report(t)) = IF stage[t] = "sendDown" THEN {Code(t)} ELSE {}
    BY <2>3, <2>4 DEF Down
  <2>6. Contents(copy[t]) = IF stage[t] = "sendDown" THEN {Code(t)} ELSE {}
    BY <2>3 DEF IInv, Lone, LoneAt
  <2>7. QED
    BY <2>2, <2>5, <2>6
<1>2. QED
  BY <1>1, Inductive, PTL DEF HostSeesStrokes, Spec

=============================================================================
