----------------------------- MODULE HidReports -----------------------------
(***************************************************************************)
(* What a report of the virtual Apple keyboard means to the host.          *)
(*                                                                         *)
(* The driver puts usages into the arrays of HIDReport.hpp and hands the   *)
(* bytes to the keyboard; the host reads them by the report descriptor of  *)
(* VirtualAppleKeyboard.cpp.  Nothing but numbers ties the two files: id,  *)
(* length, usage page and the limits of the values must fit the class.     *)
(*                                                                         *)
(* The two arrays are members of the driver that all handler threads share *)
(* without a lock.  So insert and erase are modelled comparison by         *)
(* comparison and store by store, and a post as a copy of the report and,  *)
(* later, its delivery.                                                    *)
(*                                                                         *)
(* External: how a host reads descriptors and reports (HID 1.11, 5 and 6). *)
(* Keys held by a report of another id, and getReport, which the driver    *)
(* never calls, are left out.                                              *)
(***************************************************************************)
EXTENDS Integers, FiniteSets, SequencesExt

CONSTANTS
  Handlers,        \* threads that dispatch reports
  Strokes,         \* the strokes they dispatch: report and code
  Count            \* places of an array in use (32 in the code); of a smaller
                   \* array the places beyond are there and stay empty

ASSUME CountAssumption == Count \in 1 .. 32

VARIABLES
  stage,           \* where each handler is in its stroke
  stroke,          \* the report and the code it dispatches
  place,           \* the place its loop is at
  copy,            \* the array in its copy of the report
  keys,            \* the arrays of the two reports, byte for byte
  host,            \* the usages, with their page, the host takes as held
  crowded          \* ghost: reports whose last stroke began inside another one
vars == <<stage, stroke, place, copy, keys, host, crowded>>

Places == 1 .. Count
Byte == 0 .. 255
Reports == {"csmr", "tc"}
Stages == {"idle", "exists", "find", "store", "copyDown", "sendDown",
           "erase", "eraseStore", "copyUp", "sendUp"}

\* The codes handleMessage and displayOff dispatch: volume, mute and media keys
\* on Apple's consumer page; brightness, mirror and illumination keys.
Dispatched == [csmr |-> {181, 182, 205, 226, 233, 234}, tc |-> {4, 5, 6, 8, 9}]
Page == [csmr |-> 12, tc |-> 255]

ASSUME StrokesAssumption ==
  Strokes \subseteq UNION { {<<r, c>> : c \in Dispatched[r]} : r \in Reports }

-----------------------------------------------------------------------------
(***************************************************************************)
(* The report descriptor: items of a tag and its little-endian data.       *)
(***************************************************************************)

\* A plausible slip: 0x25, 0xff for 0x26, 0xff, 0x00.
KeyArrayShort ==
  << <<"ReportCount", 32>>, <<"ReportSize", 8>>,
     <<"LogicalMinimum", 0>>, <<"LogicalMaximum", 255>>,
     <<"UsageMinimum", 0>>, <<"UsageMaximum", 255>>, <<"Input">> >>

KeyArray ==
  << <<"ReportCount", 32>>, <<"ReportSize", 8>>,
     <<"LogicalMinimum", 0>>, <<"LogicalMaximum", 255, 0>>,
     <<"UsageMinimum", 0>>, <<"UsageMaximum", 255>>, <<"Input">> >>

virt_reportDescriptor ==
  << <<"UsagePage", 1>>, <<"ReportId", 1>>, <<"UsagePage", 7>>,
     <<"UsageMinimum", 224>>, <<"UsageMaximum", 231>>,
     <<"LogicalMinimum", 0>>, <<"LogicalMaximum", 1>>,
     <<"ReportSize", 1>>, <<"ReportCount", 8>>, <<"Input">>,
     <<"ReportCount", 1>>, <<"ReportSize", 8>>, <<"Input">> >>
  \o KeyArray
  \o << <<"UsagePage", 12>>, <<"ReportId", 2>>, <<"UsagePage", 12>> >> \o KeyArray
  \o << <<"UsagePage", 0, 255>>, <<"ReportId", 3>>, <<"UsagePage", 255>> >> \o KeyArray
  \o << <<"UsagePage", 0, 255>>, <<"ReportId", 191>>, <<"UsagePage", 0, 255>> >>
  \o KeyArray

Tags == {"UsagePage", "ReportId", "ReportSize", "ReportCount", "UsageMinimum",
         "UsageMaximum", "LogicalMinimum", "LogicalMaximum"}
Tag(i) == virt_reportDescriptor[i][1]
Data(i) == Tail(virt_reportDescriptor[i])

\* Items of this descriptor have one byte or two.
Unsigned(data) == data[1] + IF Len(data) = 2 THEN 256 * data[2] ELSE 0

\* Logical limits are signed, in as many bytes as the item has.
Signed(data) ==
  Unsigned(data) - IF data[Len(data)] < 128 THEN 0
                   ELSE IF Len(data) = 2 THEN 65536 ELSE 256

\* The items of a tag that are in force at item i: all before it, but of the
\* local ones only those after the last input item.
InForce(i, tag) ==
  {j \in 1 .. i - 1 : /\ Tag(j) = tag
                      /\ tag \in {"UsageMinimum", "UsageMaximum"} =>
                           \A k \in j .. i - 1 : Tag(k) # "Input"}

\* What item i reads for a tag: the last one in force.
ReadItem(i, tag) ==
  IF InForce(i, tag) = {} THEN 0
  ELSE LET data == Data(Max(InForce(i, tag))) IN
       IF tag \in {"LogicalMinimum", "LogicalMaximum"} THEN Signed(data)
                                                      ELSE Unsigned(data)

\* Each input item makes a field of what is in force there.
Inputs == {i \in DOMAIN virt_reportDescriptor : Tag(i) = "Input"}
Fields == { [tag \in Tags |-> ReadItem(i, tag)] : i \in Inputs }

\* What the host takes as held: it reads a report only if its id and length are
\* the descriptor's, and of an array only the values inside all limits.
Within(f, value) ==
  /\ value \in f["LogicalMinimum"] .. f["LogicalMaximum"]
  /\ value \in f["UsageMinimum"] .. f["UsageMaximum"]
Describes(f, bytes) ==
  /\ f["ReportId"] = bytes[1]
  /\ f["ReportSize"] * f["ReportCount"] = 8 * (Len(bytes) - 1)
Decode(bytes) ==
  UNION { { <<f["UsagePage"], v>> : v \in {w \in ToSet(Tail(bytes)) \ {0} : Within(f, w)} }
          : f \in {g \in Fields : Describes(g, bytes)} }

-----------------------------------------------------------------------------
(***************************************************************************)
(* dispatchCSMRReport and dispatchTCReport on handler t.                   *)
(***************************************************************************)
Report(t) == stroke[t][1]
Code(t) == stroke[t][2]
Key(t) == Code(t) % 256
Users(r) == {t \in Handlers : stage[t] # "idle" /\ Report(t) = r}
Empty == [p \in Places |-> 0]

Init ==
  /\ stage = [t \in Handlers |-> "idle"]
  /\ stroke \in [Handlers -> Strokes]
  /\ place = [t \in Handlers |-> 1]
  /\ copy = [t \in Handlers |-> Empty]
  /\ keys = [r \in Reports |-> Empty]
  /\ host = [r \in Reports |-> {}]
  /\ crowded = {}

Goto(t, to) == stage' = [stage EXCEPT ![t] = to]

\* One stroke; the next one of a loop is one more Dispatch.
Dispatch(t, s) ==
  /\ stage[t] = "idle"
  /\ stroke' = [stroke EXCEPT ![t] = s]
  /\ crowded' = IF Users(s[1]) = {} THEN crowded \ {s[1]} ELSE crowded \cup {s[1]}
  /\ Goto(t, "exists") /\ UNCHANGED <<place, copy, keys, host>>

\* The byte the loop looks at, what a loop does next, and a store at its place.
Here(t) == keys[Report(t)][place[t]]
Advance(t, loop, done) ==
  IF place[t] < Count THEN place' = [place EXCEPT ![t] = @ + 1] /\ Goto(t, loop)
                      ELSE place' = [place EXCEPT ![t] = 1] /\ Goto(t, done)
Break(t, done) == place' = [place EXCEPT ![t] = 1] /\ Goto(t, done)
Put(t, byte) == keys' = [keys EXCEPT ![Report(t)][place[t]] = byte]

\* insert: is the key there ...
Exists(t) ==
  /\ stage[t] = "exists"
  /\ \/ Here(t) = Key(t) /\ Break(t, "copyDown")
     \/ Here(t) # Key(t) /\ Advance(t, "exists", "find")
  /\ UNCHANGED <<stroke, copy, keys, host, crowded>>

\* ... if not, the first free place takes it ...
FindFree(t) ==
  /\ stage[t] = "find"
  /\ \/ Here(t) = 0 /\ Goto(t, "store") /\ UNCHANGED place
     \/ Here(t) # 0 /\ Advance(t, "find", "copyDown")
  /\ UNCHANGED <<stroke, copy, keys, host, crowded>>

\* A plausible slip: dispatchTCReport, copied, puts its key into csmrreport.
StoreElsewhere(t) ==
  /\ stage[t] = "store"
  /\ keys' = [keys EXCEPT !["csmr"][place[t]] = Key(t)]
  /\ Break(t, "copyDown") /\ UNCHANGED <<stroke, copy, host, crowded>>

\* ... whatever another handler has put there since.
Store(t) ==
  /\ stage[t] = "store"
  /\ Put(t, Key(t))
  /\ Break(t, "copyDown") /\ UNCHANGED <<stroke, copy, host, crowded>>

\* erase: every place that has the key ...
Erase(t) ==
  /\ stage[t] = "erase"
  /\ \/ Here(t) = Key(t) /\ Goto(t, "eraseStore") /\ UNCHANGED place
     \/ Here(t) # Key(t) /\ Advance(t, "erase", "copyUp")
  /\ UNCHANGED <<stroke, copy, keys, host, crowded>>

\* A plausible slip: erase returns after the first place, as insert does.
EraseStoreReturns(t) ==
  /\ stage[t] = "eraseStore"
  /\ Put(t, 0)
  /\ Break(t, "copyUp") /\ UNCHANGED <<stroke, copy, host, crowded>>

\* ... is emptied.
EraseStore(t) ==
  /\ stage[t] = "eraseStore"
  /\ Put(t, 0)
  /\ Advance(t, "erase", "copyUp") /\ UNCHANGED <<stroke, copy, host, crowded>>

\* A plausible slip: the key is not taken out between the two posts.
AfterPostUnerased(t) ==
  \/ stage[t] \in {"copyDown", "sendDown"} /\ Goto(t, "copyUp")
  \/ stage[t] \in {"copyUp", "sendUp"} /\ Goto(t, "idle")

AfterPost(t) ==
  \/ stage[t] \in {"copyDown", "sendDown"} /\ Goto(t, "erase")
  \/ stage[t] \in {"copyUp", "sendUp"} /\ Goto(t, "idle")

\* postKeyboardInputReport copies the report, in one step here: a copy torn by
\* another handler's store holds keys of this report, too, and nothing reads it
\* but its own post ...
CopyReport(t) ==
  /\ stage[t] \in {"copyDown", "copyUp"}
  /\ copy' = [copy EXCEPT ![t] = keys[Report(t)]]
  /\ Goto(t, IF stage[t] = "copyDown" THEN "sendDown" ELSE "sendUp")
  /\ UNCHANGED <<stroke, place, keys, host, crowded>>

\* ... unless there is no keyboard or no memory; the result is ignored ...
PostFails(t) ==
  /\ stage[t] \in {"copyDown", "copyUp"}
  /\ AfterPost(t) /\ UNCHANGED <<stroke, place, copy, keys, host, crowded>>

\* ... and hands over the copy, however old it is by then: the id and all 32
\* bytes, sizeof of the class.
ReportId == [csmr |-> 2, tc |-> 3]
Whole(array) == [p \in 1 .. 32 |-> IF p \in Places THEN array[p] ELSE 0]
Bytes(r, array) == <<ReportId[r]>> \o Whole(array)
HandleReport(t) ==
  /\ stage[t] \in {"sendDown", "sendUp"}
  /\ host' = [host EXCEPT ![Report(t)] = Decode(Bytes(Report(t), copy[t]))]
  /\ copy' = [copy EXCEPT ![t] = Empty]
  /\ AfterPost(t) /\ UNCHANGED <<stroke, place, keys, crowded>>

Handle(t) ==
  \/ \E s \in Strokes : Dispatch(t, s)
  \/ Exists(t) \/ FindFree(t) \/ Store(t) \/ Erase(t) \/ EraseStore(t)
  \/ CopyReport(t) \/ PostFails(t) \/ HandleReport(t)

Next == \E t \in Handlers : Handle(t)

Spec == Init /\ [][Next]_vars

-----------------------------------------------------------------------------
(***************************************************************************)
(* Properties.                                                             *)
(***************************************************************************)

\* Whatever handlers do to each other's keys, an array and its copies hold keys
\* dispatched to that report only, and so does the host on that report's page:
\* the two functions of AsusSMC.cpp:737-755 never touch the other one's report.
Contents(array) == {array[p] : p \in Places} \ {0}
TypeOK ==
  /\ stage \in [Handlers -> Stages] /\ stroke \in [Handlers -> Strokes]
  /\ place \in [Handlers -> Places] /\ crowded \in SUBSET Reports
  /\ copy \in [Handlers -> [Places -> Byte]]
  /\ keys \in [Reports -> [Places -> Byte]]
  /\ host \in [Reports -> SUBSET ({12, 255} \X Byte)]
  /\ \A t \in Handlers : Contents(copy[t]) \subseteq Dispatched[Report(t)]
  /\ \A r \in Reports : /\ Contents(keys[r]) \subseteq Dispatched[r]
                        /\ host[r] \subseteq {Page[r]} \X Dispatched[r]

\* A report's strokes have been one at a time since it was last out of use, and
\* nobody is within insert or erase.
Alone(r) == r \notin crowded \/ Users(r) = {}
Settled(r) == \A t \in Users(r) :
                stage[t] \in {"copyDown", "sendDown", "copyUp", "sendUp"}
Down(r) == {Code(t) : t \in {u \in Users(r) : stage[u] \in {"copyDown", "sendDown"}}}

\* However handlers have overwritten, doubled or taken out each other's keys,
\* nothing is left in an array when none of them uses it any more; and a stroke
\* that then has the report to itself finds and leaves it exactly as it should
\* (insert and erase of HIDReport.hpp, without a lock).
ArraysExact ==
  \A r \in Reports : Alone(r) /\ Settled(r) => Contents(keys[r]) = Down(r)

\* A handler delivers its copy of a report.
Delivers(t) == stage[t] \in {"sendDown", "sendUp"} /\ stage'[t] # stage[t]

\* Each post shows the host exactly the keys in the copy, on the page the driver
\* means, on however many threads: the descriptor of VirtualAppleKeyboard.cpp
\* fits the id, the length and every value of the classes of HIDReport.hpp.
HostReadsBytes ==
  [][\A t \in Handlers : Delivers(t) =>
       host'[Report(t)] = {<<Page[Report(t)], c>> : c \in Contents(copy[t])}]_vars

\* A stroke that has the report to itself shows the host its key and no other,
\* and then none, also where earlier strokes were not alone (AsusSMC.cpp:737-755).
HostSeesStrokes ==
  [][\A t \in Handlers : Delivers(t) /\ Alone(Report(t)) =>
       host'[Report(t)] = {<<Page[Report(t)], c>> : c \in Down(Report(t))}]_vars

=============================================================================
