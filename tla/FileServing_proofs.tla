------------------------- MODULE FileServing_proofs -------------------------
(***************************************************************************)
(* parseRangeHeader is right for every header and every size, clients are  *)
(* sent the bytes they asked for or the first few of them, whatever        *)
(* happens to the file, those that come too late are sent nothing, and     *)
(* uploads take their files away from no link but the stray ones.          *)
(***************************************************************************)
EXTENDS FileServing, FiniteSetTheorems, TLAPS

-----------------------------------------------------------------------------
\* Ranges.

\* The larger of two.
LEMMA MaxOfTwo ==
    ASSUME NEW a \in Int, NEW b \in Int
    PROVE  Max({a, b}) = IF a >= b THEN a ELSE b
<1> DEFINE m == IF a >= b THEN a ELSE b
<1>1. m \in {a, b} /\ \A y \in {a, b} : m >= y
    OBVIOUS
<1>2. \A x \in {a, b} : (\A y \in {a, b} : x >= y) => x = m
    OBVIOUS
<1> QED BY <1>1, <1>2 DEF Max

\* The smaller of two.
LEMMA MinOfTwo ==
    ASSUME NEW a \in Int, NEW b \in Int
    PROVE  Min({a, b}) = IF a <= b THEN a ELSE b
<1> DEFINE m == IF a <= b THEN a ELSE b
<1>1. m \in {a, b} /\ \A y \in {a, b} : m =< y
    OBVIOUS
<1>2. \A x \in {a, b} : (\A y \in {a, b} : x =< y) => x = m
    OBVIOUS
<1> QED BY <1>1, <1>2 DEF Min

\* The fields of a header are numbers, unused ones 0.
LEMMA HeaderShape ==
    ASSUME NEW h \in Header
    PROVE  /\ h.a \in Nat /\ h.b \in Nat
           /\ h.kind \in {"none", "bad", "huge", "from", "span", "last", "list"}
BY FileServingAssumption DEF Header

\* What is asked for is an interval, and finite.
LEMMA AskedIsFinite ==
    ASSUME NEW h, NEW size \in Nat
    PROVE  /\ IsFiniteSet(Asked(h, size)) /\ Cardinality(Asked(h, size)) \in Nat
           /\ Asked(h, size) \subseteq Nat
<1>1. IsFiniteSet(0..(size - 1))
    BY FS_Interval
<1>2. Asked(h, size) \in SUBSET (0..(size - 1))
    BY DEF Asked
<1>3. IsFiniteSet(Asked(h, size))
    BY <1>1, <1>2, FS_Subset
<1> QED BY <1>2, <1>3, FS_CardinalityType

\* A whole file has as many bytes as its size says.
LEMMA WholeFile ==
    ASSUME NEW size \in Nat
    PROVE  0..(size - 1) \in SUBSET Nat /\ Cardinality(0..(size - 1)) = size
BY FS_Interval

\* What parseRangeHeader accepts it turns into exactly the positions asked for,
\* and what it refuses asks for none of the file (rclone.go:357), is a list or has
\* a number that is too long: suffixes longer than the file, ends beyond it and
\* empty files included.
THEOREM ParsedRange ==
    ASSUME NEW h \in Header, h.kind # "none", NEW size \in Nat
    PROVE  LET range == parseRangeHeader(h, size)
           IN /\ ~range.ok => Asked(h, size) = {} \/ h.kind \in {"list", "huge"}
              /\ range.ok => /\ range.first \in Nat /\ range.last \in Int
                             /\ range.last - range.first + 1 \in Nat
                             /\ Asked(h, size) = range.first..range.last
                             /\ Cardinality(Asked(h, size)) = range.last - range.first + 1
<1> DEFINE range == parseRangeHeader(h, size)
<1>1. /\ h.a \in Nat /\ h.b \in Nat
      /\ h.kind \in {"bad", "huge", "from", "span", "last", "list"}
    BY HeaderShape
<1>2. /\ range.ok = Accepted(h, size)
      /\ range.first = IF h.kind = "last" THEN IF size - h.b >= 0 THEN size - h.b ELSE 0 ELSE h.a
      /\ range.last = IF h.kind = "span" THEN IF h.b <= size - 1 THEN h.b ELSE size - 1
                                         ELSE size - 1
    BY <1>1, MaxOfTwo, MinOfTwo DEF parseRangeHeader
<1>3. ~Accepted(h, size) => Asked(h, size) = {} \/ h.kind \in {"list", "huge"}
    BY <1>1 DEF Accepted, Asked
<1>4. ASSUME Accepted(h, size)
      PROVE  /\ range.first \in Nat /\ range.last \in Int /\ range.last - range.first + 1 \in Nat
             /\ Asked(h, size) = range.first..range.last
    BY <1>1, <1>2, <1>4 DEF Accepted, Asked
<1>5. ASSUME Accepted(h, size)
      PROVE  Cardinality(Asked(h, size)) = range.last - range.first + 1
  <2> DEFINE a == range.first
             b == range.last
  <2>1. a \in Int /\ b \in Int /\ ~ a > b + 1 /\ Asked(h, size) = a..b
      BY <1>4, <1>5
  <2> HIDE DEF a, b
  <2>2. Cardinality(a..b) = IF a > b THEN 0 ELSE b - a + 1
      BY <2>1, FS_Interval
  <2>3. Cardinality(Asked(h, size)) = b - a + 1
      BY <2>1, <2>2
  <2> QED BY <2>3 DEF a, b
<1> HIDE DEF range
<1> QED BY <1>2, <1>3, <1>4, <1>5 DEF range

-----------------------------------------------------------------------------
(***************************************************************************)
(* The invariant.  A file is fetched from remote storage only when its row *)
(* says so or has said so (Outlived): from then on it can go, but not come *)
(* back, so that an answer that was right stays right.  What is announced  *)
(* before rclone cat runs is what was asked for (Announced).               *)
(***************************************************************************)
AnswerRecord ==
    [status: {0, 200, 206, 403, 404, 416}, first: Nat, count: Nat, body: SUBSET Nat]
FetchRecord ==
    [at: {"resolve", "open", "cat", "done"}, header: Header,
     uri: {"none", "local", "remote"}, late: BOOLEAN, cut: BOOLEAN,
     answer: AnswerRecord]
LinkRecord == [dl: Downloads, uri: {"local", "remote"}, node: Nodes, live: BOOLEAN]

Shapes ==
    /\ file \in [Downloads -> [size: Nat, home: Nodes]]
    /\ links \in [Tokens -> LinkRecord \cup {NoLink}]
    /\ fetch \in [Tokens -> FetchRecord]
    /\ \A t \in Tokens :
         /\ fetch[t] # NoFetch => links[t] \in LinkRecord
         /\ fetch[t].at = "done" /\ fetch[t] # NoFetch => fetch[t].answer.status # 0

Left(d) == row[d] \in {"remote", "gone"}
Outlived ==
    /\ \A d \in Downloads : moving[d] = "links" => Left(d)
    /\ request.loc = "remote" => Left(request.dl)
    /\ \A t \in Tokens : links[t].uri = "remote" => Left(links[t].dl)
    /\ \A t \in Tokens : fetch[t].uri = "remote" => Left(links[t].dl)

Announced ==
    \A t \in Tokens : fetch[t].at = "cat" =>
      /\ fetch[t].uri = "remote" /\ fetch[t].answer.status \in {200, 206}
      /\ fetch[t].answer.count = Cardinality(Wanted(t)) /\ Cat(t) = Wanted(t)

\* What an answer may be, a short one only of a file that is gone or was cut.
GoodAnswer(size, h, a) ==
    /\ a.status \in {200, 206} =>
         LET wanted == WantedOf(a.status, h, size)
         IN a.count = Cardinality(wanted) /\ FromTheStart(a.body, wanted)
    /\ a.status = 416 => Asked(h, size) = {} \/ h.kind \in {"list", "huge"}
WholeAnswer(size, h, a) == a.status \in {200, 206} => a.body = WantedOf(a.status, h, size)
Gone(t) == links[t].dl \notin remote /\ Left(links[t].dl)
Short(t) == fetch[t].cut \/ Gone(t)
Answered ==
    \A t \in Tokens : Done(t) =>
      /\ GoodAnswer(Size(t), fetch[t].header, fetch[t].answer)
      /\ WholeAnswer(Size(t), fetch[t].header, fetch[t].answer) \/ Short(t)

IInv == TypeOK /\ Shapes /\ Outlived /\ Announced /\ Answered

\* A token no fetch was made of.
LEMMA NoFetchShape == NoFetch \in FetchRecord
<1>1. NoRange \in Header
    BY DEF NoRange, Header
<1> QED BY <1>1 DEF NoFetch, FetchRecord, AnswerRecord, Pending

\* Nothing is stored and nothing is asked for at first.
LEMMA InitHolds == Init => IInv
<1> SUFFICES ASSUME Init PROVE IInv
    OBVIOUS
<1> USE DEF Init
<1>1. TypeOK
  <2>1. \A t \in Tokens : fetch[t] = NoFetch /\ links[t] = NoLink
      OBVIOUS
  <2>2. /\ NoFetch.at \in {"resolve", "open", "cat", "done"} /\ NoFetch.header \in Header
        /\ NoFetch.answer.first \in Nat /\ NoFetch.answer.count \in Nat
      BY NoFetchShape DEF FetchRecord, AnswerRecord
  <2> QED BY <2>1, <2>2 DEF TypeOK
<1>2. Shapes
    BY NoFetchShape, FileServingAssumption DEF Shapes
<1>3. Outlived
    BY DEF Outlived, NoRequest, NoLink, NoFetch
<1>4. Announced
    BY DEF Announced, NoFetch
<1>5. Answered
    BY DEF Answered, Done
<1> QED BY <1>1, <1>2, <1>3, <1>4, <1>5 DEF IInv

\* Steps that touch no link and no fetch, and bring no file back to where it is
\* fetched from.
LEMMA FilesKeepInvariant ==
    ASSUME IInv, TypeOK', UNCHANGED <<file, links, fetch>>,
           \A d \in Downloads : Left(d) => Left(d)',
           \A d \in Downloads : Left(d) => (d \in remote' => d \in remote),
           \A d \in Downloads : moving'[d] = "links" => Left(d)',
           request'.loc = "remote" => request'.dl \in Downloads /\ Left(request.dl)' 
    PROVE  IInv'
<1>1. Shapes'
    BY DEF IInv, Shapes
<1>2. \A t \in Tokens : links[t].uri = "remote" => links[t].dl \in Downloads
    BY DEF IInv, Shapes, LinkRecord, NoLink
<1>3. \A t \in Tokens : fetch[t].uri = "remote" => links[t].dl \in Downloads
    BY DEF IInv, Shapes, LinkRecord, NoFetch
<1>4. Outlived'
    BY <1>2, <1>3 DEF IInv, Outlived, Left
<1>5. Announced'
    BY DEF IInv, Announced, Wanted, Cat, Size
<1>6. Answered'
  <2>1. \A t \in Tokens : Done(t) => links[t].dl \in Downloads
      BY DEF IInv, Shapes, Done, LinkRecord
  <2>2. \A t \in Tokens : (Done(t)' <=> Done(t)) /\ Size(t)' = Size(t)
      BY DEF Done, Size
  <2>3. \A t \in Tokens : Done(t) /\ Short(t) => Short(t)'
      BY <2>1 DEF Short, Gone
  <2> QED BY <2>2, <2>3 DEF IInv, Answered, GoodAnswer, WholeAnswer
<1> QED BY <1>1, <1>4, <1>5, <1>6 DEF IInv

\* Completion, upload and the removal of files.
LEMMA DownloadStepKeepsInvariant ==
    ASSUME IInv, NEW d \in Downloads,
           Complete(d) \/ Upload(d) \/ Record(d) \/ UploadClean(d) \/ RemoveFiles(d) \/ LinkRow(d)
    PROVE  IInv'
<1>1. /\ row \in [Downloads -> {"running", "local", "remote", "gone"}]
      /\ moving \in [Downloads -> {"no", "record", "links", "clean"}]
      /\ \A x \in Downloads : moving[x] = "links" => Left(x)
      /\ request.loc = "remote" => request.dl \in Downloads /\ Left(request.dl)
    BY DEF IInv, TypeOK, Outlived, NoRequest
<1>2. CASE Complete(d)
  <2>1. TypeOK'
      BY <1>2 DEF IInv, TypeOK, Complete, nodes, NoRequest, NoLink
  <2> QED BY <1>1, <1>2, <2>1, FilesKeepInvariant DEF Complete, Left, nodes
<1>3. CASE Upload(d)
  <2>1. TypeOK'
      BY <1>3 DEF IInv, TypeOK, Upload, nodes, NoRequest, NoLink
  <2> QED BY <1>1, <1>3, <2>1, FilesKeepInvariant DEF Upload, Left, nodes
<1>4. CASE Record(d)
  <2>1. TypeOK'
    <3>1. stray' \subseteq Tokens
        BY <1>4 DEF IInv, TypeOK, Record, LocalLinks
    <3>2. /\ row' \in [Downloads -> {"running", "local", "remote", "gone"}]
          /\ moving' \in [Downloads -> {"no", "record", "links", "clean"}]
        BY <1>1, <1>4 DEF Record
    <3> QED BY <1>4, <3>1, <3>2 DEF IInv, TypeOK, Record, nodes
  <2> QED BY <1>1, <1>4, <2>1, FilesKeepInvariant DEF Record, Left, nodes
<1>5. CASE UploadClean(d)
  <2>1. TypeOK'
      BY <1>5 DEF IInv, TypeOK, UploadClean, nodes, NoRequest, NoLink
  <2> QED BY <1>1, <1>5, <2>1, FilesKeepInvariant DEF UploadClean, Left, nodes
<1>6. CASE RemoveFiles(d)
  <2>1. TypeOK'
      BY <1>6 DEF IInv, TypeOK, RemoveFiles, nodes, NoRequest, NoLink
  <2> QED BY <1>1, <1>6, <2>1, FilesKeepInvariant DEF RemoveFiles, Left, nodes
<1>7. CASE LinkRow(d)
  <2>1. PICK r \in {"local", "remote"} :
          request' = [dl |-> d, at |-> "list", loc |-> r] /\ r = row[d]
      BY <1>1, <1>7 DEF LinkRow, GetDownloadWithJobByUser
  <2>2. TypeOK'
      BY <1>7, <2>1 DEF IInv, TypeOK, LinkRow, stored, nodes, NoRequest, NoLink
  <2> QED BY <1>1, <1>7, <2>1, <2>2, FilesKeepInvariant DEF LinkRow, Left, stored, nodes
<1> QED BY <1>2, <1>3, <1>4, <1>5, <1>6, <1>7

\* The stages of GenerateLink but for the insert, and the starts of nodes.
LEMMA OtherStepKeepsInvariant ==
    ASSUME IInv,
           \/ LinkList \/ GenerateURL \/ LinkFail
           \/ \E n \in Nodes : Start(n) \/ SetRemoteProvider(n) \/ Reconcile(n)
    PROVE  IInv'
<1>1. /\ \A x \in Downloads : moving[x] = "links" => Left(x)
      /\ request.loc = "remote" => request.dl \in Downloads /\ Left(request.dl)
    BY DEF IInv, TypeOK, Outlived, NoRequest
<1>2. CASE LinkList \/ GenerateURL \/ LinkFail
  <2>1. /\ request' = NoRequest \/ (request.at = "list" /\ request' = [request EXCEPT !.at = "make"])
        /\ UNCHANGED <<stored, nodes, links, fetch, stray>>
      BY <1>2 DEF LinkList, GenerateURL, LinkFail
  <2>2. \/ request' = NoRequest
        \/ /\ request' \in [dl: Downloads, at: {"list", "make"}, loc: {"local", "remote"}]
           /\ request'.dl = request.dl /\ request'.loc = request.loc
      BY <2>1 DEF IInv, TypeOK, NoRequest
  <2>3. TypeOK'
      BY <2>1, <2>2 DEF IInv, TypeOK, stored, nodes
  <2>4. request'.loc = "remote" => request'.dl \in Downloads /\ Left(request.dl)'
      BY <1>1, <2>1, <2>2 DEF NoRequest, Left, stored
  <2> QED BY <1>1, <2>1, <2>3, <2>4, FilesKeepInvariant DEF Left, stored
<1>3. CASE \E n \in Nodes : Start(n) \/ SetRemoteProvider(n) \/ Reconcile(n)
  <2>1. PICK n \in Nodes : Start(n) \/ SetRemoteProvider(n) \/ Reconcile(n)
      BY <1>3
  <2>2. /\ UNCHANGED <<file, row, remote, moving, cleaning, request, links, fetch, stray>>
        /\ disk' \in SUBSET disk \/ disk' = disk
        /\ provider' \subseteq up' /\ up' \subseteq Nodes
      BY <2>1 DEF IInv, TypeOK, Start, SetRemoteProvider, Reconcile, stored, nodes
  <2>3. TypeOK'
      BY <2>2 DEF IInv, TypeOK
  <2> QED BY <1>1, <2>2, <2>3, FilesKeepInvariant DEF Left
<1> QED BY <1>2, <1>3

\* Steps on links.
LEMMA LinksKeepInvariant ==
    ASSUME IInv, TypeOK', UNCHANGED <<file, remote, fetch>>,
           links' \in [Tokens -> LinkRecord \cup {NoLink}],
           \A t \in Tokens : links[t] # NoLink => links'[t] # NoLink /\ links'[t].dl = links[t].dl,
           \A t \in Tokens : links'[t].uri = "remote" => links'[t].dl \in Downloads /\ Left(links[t].dl)',
           \A d \in Downloads : Left(d) => Left(d)',
           \A d \in Downloads : moving'[d] = "links" => moving[d] = "links",
           request' = request \/ request' = NoRequest
    PROVE  IInv'
<1>1. \A t \in Tokens : fetch[t] # NoFetch => /\ links[t] # NoLink /\ links[t].dl \in Downloads
                                              /\ links'[t] \in LinkRecord
                                              /\ links'[t].dl = links[t].dl
    BY DEF IInv, Shapes, LinkRecord, NoLink
<1>2. Shapes'
    BY <1>1 DEF IInv, Shapes
<1>3. \A t \in Tokens : fetch[t].uri = "remote" => fetch[t] # NoFetch
    BY DEF NoFetch
<1>4. Outlived'
  <2>1. \A t \in Tokens : fetch[t].uri = "remote" => Left(links[t].dl)'
      BY <1>1, <1>3 DEF IInv, Outlived, Left
  <2>2. request'.loc = "remote" => Left(request.dl)'
      BY DEF IInv, TypeOK, Outlived, Left, NoRequest
  <2> QED BY <2>1, <2>2 DEF IInv, Outlived
<1>5. \A t \in Tokens : fetch[t] # NoFetch => Size(t)' = Size(t)
    BY <1>1 DEF Size
<1>6. Announced'
  <2>1. \A t \in Tokens : fetch[t].at = "cat" => fetch[t] # NoFetch
      BY DEF NoFetch
  <2> QED BY <1>5, <2>1 DEF IInv, Announced, Wanted, Cat
<1>7. Answered'
  <2>1. \A t \in Tokens : Done(t)' => Done(t) /\ fetch[t] # NoFetch
      BY DEF Done
  <2>2. \A t \in Tokens : Done(t)' => (Size(t)' = Size(t) /\ (Short(t) => Short(t)'))
      BY <1>1, <1>5, <2>1 DEF Short, Gone
  <2>3. \A t \in Tokens : Done(t)' =>
          /\ GoodAnswer(Size(t), fetch[t].header, fetch[t].answer)
          /\ WholeAnswer(Size(t), fetch[t].header, fetch[t].answer) \/ Short(t)
      BY <2>1 DEF IInv, Answered
  <2> QED BY <2>2, <2>3 DEF Answered, GoodAnswer, WholeAnswer
<1> QED BY <1>2, <1>4, <1>6, <1>7 DEF IInv

\* Links are made, end, and follow their files.
LEMMA LinkStepKeepsInvariant ==
    ASSUME IInv,
           \/ \E d \in Downloads : RewriteLinks(d) \/ Delete(d)
           \/ \E t \in Tokens : Expire(t) \/ \E n \in Nodes : LinkCreate(t, n)
    PROVE  IInv'
<1>1. /\ \A x \in Downloads : moving[x] = "links" => Left(x)
      /\ request.loc = "remote" => request.dl \in Downloads /\ Left(request.dl)
      /\ links \in [Tokens -> LinkRecord \cup {NoLink}]
      /\ \A t \in Tokens : links[t].uri = "remote" => links[t].dl \in Downloads /\ Left(links[t].dl)
      /\ \A t \in Tokens : links[t] # NoLink => links[t] \in LinkRecord
      /\ row \in [Downloads -> {"running", "local", "remote", "gone"}]
      /\ moving \in [Downloads -> {"no", "record", "links", "clean"}]
    BY DEF IInv, TypeOK, Shapes, Outlived, NoRequest, NoLink, LinkRecord
<1>2. \A t \in Tokens : links[t] = NoLink \/ links[t] \in LinkRecord
    BY <1>1
<1>3. NoLink.uri = "none" /\ NoLink.dl = "none" /\ NoLink \notin LinkRecord
    BY DEF NoLink, LinkRecord
<1>4. ASSUME NEW t \in Tokens, NEW n \in Nodes, LinkCreate(t, n) PROVE IInv'
  <2>1. CASE row[request.dl] = "gone"
    <3>1. /\ UNCHANGED <<stored, nodes, links, fetch, stray>> /\ request' = NoRequest
        BY <1>4, <2>1 DEF LinkCreate
    <3>2. TypeOK'
        BY <3>1 DEF IInv, TypeOK, stored, nodes
    <3> QED BY <1>1, <3>1, <3>2, LinksKeepInvariant DEF stored, Left
  <2>2. CASE row[request.dl] # "gone"
    <3> DEFINE l == [dl |-> request.dl, uri |-> request.loc, node |-> n, live |-> TRUE]
    <3>1. /\ request \in [dl: Downloads, at: {"list", "make"}, loc: {"local", "remote"}]
          /\ links[t] = NoLink /\ links' = [links EXCEPT ![t] = l] /\ request' = NoRequest
          /\ stray' \subseteq Tokens /\ UNCHANGED <<stored, nodes, fetch>>
        BY <1>4, <2>2 DEF IInv, TypeOK, LinkCreate, NewLink, NoRequest
    <3>2. l \in LinkRecord /\ l.uri = request.loc /\ l.dl = request.dl
        BY <3>1 DEF LinkRecord
    <3> HIDE DEF l
    <3>3. links' \in [Tokens -> LinkRecord \cup {NoLink}]
        BY <1>1, <3>1, <3>2
    <3>4. TypeOK'
      <4>1. \A x \in Tokens : links'[x] = NoLink \/ links'[x] \in LinkRecord
          BY <3>3
      <4> QED BY <3>1, <4>1 DEF IInv, TypeOK, stored, nodes, LinkRecord
    <3>5. \A x \in Tokens : links'[x].uri = "remote" => links'[x].dl \in Downloads /\ Left(links[x].dl)'
        BY <1>1, <3>1, <3>2 DEF Left, stored
    <3> QED BY <1>1, <3>1, <3>3, <3>4, <3>5, LinksKeepInvariant DEF stored, Left
  <2> QED BY <2>1, <2>2
<1>5. ASSUME NEW t \in Tokens, Expire(t) PROVE IInv'
  <2>1. links[t] \in LinkRecord
      BY <1>1, <1>5 DEF Expire, NoLink
  <2>2. /\ links' = [links EXCEPT ![t] = [links[t] EXCEPT !.live = FALSE]]
        /\ UNCHANGED <<stored, nodes, request, fetch, stray>>
      BY <1>5 DEF Expire, Ended
  <2>3. /\ [links[t] EXCEPT !.live = FALSE] \in LinkRecord
        /\ [links[t] EXCEPT !.live = FALSE].dl = links[t].dl
        /\ [links[t] EXCEPT !.live = FALSE].uri = links[t].uri
      BY <2>1 DEF LinkRecord
  <2>4. links' \in [Tokens -> LinkRecord \cup {NoLink}]
      BY <1>1, <2>2, <2>3
  <2>5. TypeOK'
      BY <2>2, <2>4 DEF IInv, TypeOK, stored, nodes, LinkRecord
  <2>6. \A x \in Tokens : links'[x].dl = links[x].dl /\ links'[x].uri = links[x].uri
      BY <1>1, <2>2, <2>3
  <2>7. \A x \in Tokens : links[x] # NoLink => links'[x] # NoLink
      BY <1>1, <1>3, <2>2, <2>3
  <2> QED BY <1>1, <2>2, <2>4, <2>5, <2>6, <2>7, LinksKeepInvariant DEF stored, Left
<1>6. ASSUME NEW d \in Downloads, Delete(d) PROVE IInv'
  <2> DEFINE f(l) == IF l.dl = d THEN [l EXCEPT !.live = FALSE] ELSE l
  <2>1. /\ links' = [t \in Tokens |-> f(links[t])] /\ row' = [row EXCEPT ![d] = "gone"]
        /\ cleaning' = [cleaning EXCEPT ![d] = row[d]] /\ row[d] \in {"local", "remote"}
        /\ UNCHANGED <<file, disk, remote, moving, nodes, request, fetch, stray>>
      BY <1>6 DEF Delete, Ended
  <2>2. ASSUME NEW t \in Tokens
        PROVE  /\ f(links[t]) \in LinkRecord \cup {NoLink}
               /\ f(links[t]).dl = links[t].dl /\ f(links[t]).uri = links[t].uri
               /\ links[t] # NoLink => f(links[t]) # NoLink
    <3>1. CASE links[t] \in LinkRecord
        BY <3>1, <1>3 DEF LinkRecord
    <3>2. CASE links[t] = NoLink
        BY <3>2, <1>3, FileServingAssumption
    <3> QED BY <1>2, <3>1, <3>2
  <2> HIDE DEF f
  <2>3. links' \in [Tokens -> LinkRecord \cup {NoLink}]
      BY <2>1, <2>2
  <2>4. TypeOK'
    <3>1. /\ row' \in [Downloads -> {"running", "local", "remote", "gone"}]
          /\ cleaning' \in [Downloads -> {"no", "local", "remote"}]
        BY <1>1, <2>1 DEF IInv, TypeOK
    <3> QED BY <2>1, <2>3, <3>1 DEF IInv, TypeOK, nodes, LinkRecord
  <2>5. \A x \in Downloads : Left(x) => Left(x)'
      BY <1>1, <2>1 DEF Left
  <2> QED BY <1>1, <2>1, <2>2, <2>3, <2>4, <2>5, LinksKeepInvariant
<1>7. ASSUME NEW d \in Downloads, RewriteLinks(d) PROVE IInv'
  <2> DEFINE f(l) == IF l.dl = d THEN [l EXCEPT !.uri = "remote"] ELSE l
  <2>1. /\ links' = [t \in Tokens |-> f(links[t])] \/ links' = links
        /\ moving' = [moving EXCEPT ![d] = "clean"] /\ moving[d] = "links"
        /\ UNCHANGED <<file, row, disk, remote, cleaning, nodes, request, fetch>>
      BY <1>7 DEF RewriteLinks, Follow
  <2>2. ASSUME NEW t \in Tokens, links[t] \in LinkRecord
        PROVE  /\ f(links[t]) \in LinkRecord /\ f(links[t]).dl = links[t].dl
               /\ f(links[t]).uri = "remote" => links[t].uri = "remote" \/ links[t].dl = d
      BY <2>2 DEF LinkRecord
  <2>3. f(NoLink) = NoLink
      BY <1>3, FileServingAssumption
  <2> HIDE DEF f
  <2>4. links' \in [Tokens -> LinkRecord \cup {NoLink}]
      BY <1>1, <1>2, <2>1, <2>2, <2>3
  <2>5. TypeOK'
    <3>1. \A t \in Tokens : links'[t] = NoLink \/ links'[t] \in LinkRecord
        BY <2>4
    <3>2. stray' \subseteq Tokens /\ moving' \in [Downloads -> {"no", "record", "links", "clean"}]
        BY <1>1, <1>7, <2>1 DEF IInv, TypeOK, RewriteLinks, LocalLinks
    <3> QED BY <2>1, <3>1, <3>2 DEF IInv, TypeOK, nodes, LinkRecord
  <2>6. \A t \in Tokens : links[t] # NoLink => links'[t] # NoLink /\ links'[t].dl = links[t].dl
      BY <1>2, <1>3, <2>1, <2>2
  <2>7. \A x \in Downloads : (Left(x) <=> Left(x)') /\ (moving'[x] = "links" => moving[x] = "links")
      BY <1>1, <2>1 DEF Left
  <2>8. ASSUME NEW t \in Tokens, links'[t].uri = "remote"
        PROVE  links'[t].dl \in Downloads /\ Left(links[t].dl)'
    <3>1. links[t] \in LinkRecord
        BY <1>2, <1>3, <2>1, <2>3, <2>8
    <3>2. links'[t].dl = links[t].dl /\ links[t].dl \in Downloads
        BY <2>1, <2>2, <3>1 DEF LinkRecord
    <3>3. links[t].uri = "remote" \/ links[t].dl = d
        BY <2>1, <2>2, <2>8, <3>1
    <3> QED BY <1>1, <2>1, <2>7, <3>2, <3>3 DEF Left
  <2> QED BY <2>1, <2>4, <2>5, <2>6, <2>7, <2>8, LinksKeepInvariant
<1> QED BY <1>4, <1>5, <1>6, <1>7

\* A node's death takes its fetches and uploads with it.
LEMMA CrashKeepsInvariant ==
    ASSUME IInv, NEW n \in Nodes, Crash(n)
    PROVE  IInv'
<1>1. /\ fetch' = [t \in Tokens |-> IF links[t].node = n THEN NoFetch ELSE fetch[t]]
      /\ moving' = [d \in Downloads |-> IF file[d].home = n THEN "no" ELSE moving[d]]
      /\ up' = up \ {n} /\ provider' = provider \ {n}
      /\ UNCHANGED <<file, row, disk, remote, cleaning, request, links>>
    BY DEF Crash
<1>2. \A t \in Tokens : fetch'[t] = NoFetch \/ fetch'[t] = fetch[t]
    BY <1>1
<1>3. /\ NoFetch.at = "done" /\ NoFetch.uri = "none" /\ NoFetch \in FetchRecord
      /\ NoFetch.header \in Header /\ NoFetch.answer.first \in Nat /\ NoFetch.answer.count \in Nat
    BY NoFetchShape DEF NoFetch, FetchRecord, AnswerRecord
<1>4. Shapes'
    BY <1>1, <1>2, <1>3 DEF IInv, Shapes
<1>5. TypeOK'
  <2>3. stray' \subseteq Tokens
      BY DEF Crash, LocalLinks, IInv, TypeOK
  <2>1. moving' \in [Downloads -> {"no", "record", "links", "clean"}]
      BY <1>1 DEF IInv, TypeOK
  <2>2. \A t \in Tokens :
          /\ fetch'[t].at \in {"resolve", "open", "cat", "done"} /\ fetch'[t].header \in Header
          /\ fetch'[t].answer.first \in Nat /\ fetch'[t].answer.count \in Nat
          /\ fetch'[t].at = "done" /\ fetch'[t] # NoFetch => fetch'[t].answer \in Answer
      BY <1>2, <1>3 DEF IInv, TypeOK
  <2> QED BY <1>1, <2>1, <2>2, <2>3 DEF IInv, TypeOK
<1>6. Outlived'
    BY <1>1, <1>2, <1>3 DEF IInv, Outlived, Left
<1>7. Announced'
    BY <1>1, <1>2, <1>3 DEF IInv, Announced, Wanted, Cat, Size
<1>8. Answered'
  <2>1. ASSUME NEW t \in Tokens, Done(t)'
        PROVE  Done(t) /\ Size(t)' = Size(t) /\ fetch'[t] = fetch[t]
      BY <1>1, <1>2, <2>1 DEF Done, Size
  <2>2. \A t \in Tokens : Done(t)' => (Short(t)' <=> Short(t))
      BY <1>1, <2>1 DEF Short, Gone, Left
  <2> QED BY <2>1, <2>2 DEF IInv, Answered, GoodAnswer, WholeAnswer
<1> QED BY <1>4, <1>5, <1>6, <1>7, <1>8 DEF IInv

\* What a fetch may come to.
GoodHeaders(t, h, uri, a) ==
    LET wanted == WantedOf(a.status, h, Size(t))
    IN /\ uri = "remote" /\ a.status \in {200, 206} /\ a.count = Cardinality(wanted)
       /\ wanted = {p \in 0..(Size(t) - 1) : p >= a.first /\ p < a.first + a.count}
ShortOf(t, f) == f.cut \/ Gone(t)
GoodFetch(t, f) ==
    /\ f \in FetchRecord
    /\ f.uri = "remote" => Left(links[t].dl)
    /\ f.at = "cat" => GoodHeaders(t, f.header, f.uri, f.answer)
    /\ f.at = "done" => /\ f.answer.status # 0 /\ GoodAnswer(Size(t), f.header, f.answer)
                        /\ WholeAnswer(Size(t), f.header, f.answer) \/ ShortOf(t, f)

\* Fetches change one at a time.
Becomes(t, f) == fetch' = [fetch EXCEPT ![t] = f]

\* A step of one fetch.
LEMMA FetchKeepsInvariant ==
    ASSUME IInv, NEW t \in Tokens, NEW f, GoodFetch(t, f), Becomes(t, f),
           UNCHANGED <<stored, nodes, request, links, stray>>, links[t] \in LinkRecord
    PROVE  IInv'
<1> USE DEF GoodFetch, GoodHeaders, Becomes
<1>1. fetch'[t] = f /\ \A x \in Tokens \ {t} : fetch'[x] = fetch[x]
    BY DEF IInv, Shapes
<1>2. Shapes'
    BY <1>1 DEF IInv, Shapes, stored
<1>3. f \in FetchRecord /\ f.at = "done" => f.answer \in Answer
    BY DEF FetchRecord, AnswerRecord, Answer
<1>4. TypeOK'
  <2>1. f.at \in {"resolve", "open", "cat", "done"} /\ f.header \in Header
        /\ f.answer.first \in Nat /\ f.answer.count \in Nat
      BY DEF FetchRecord, AnswerRecord
  <2>2. \A x \in Tokens :
          /\ fetch'[x].at \in {"resolve", "open", "cat", "done"} /\ fetch'[x].header \in Header
          /\ fetch'[x].answer.first \in Nat /\ fetch'[x].answer.count \in Nat
          /\ fetch'[x].at = "done" /\ fetch'[x] # NoFetch => fetch'[x].answer \in Answer
      BY <1>1, <1>3, <2>1 DEF IInv, TypeOK
  <2> QED BY <2>2 DEF IInv, TypeOK, stored, nodes
<1>5. Outlived'
    BY <1>1 DEF IInv, Outlived, Left, stored
<1>8. \A x \in Tokens : Size(x)' = Size(x)
    BY DEF Size, stored
<1>6. Announced'
  <2>1. ASSUME NEW x \in Tokens \ {t}, fetch'[x].at = "cat"
        PROVE  /\ fetch[x].uri = "remote" /\ fetch[x].answer.status \in {200, 206}
               /\ fetch[x].answer.count = Cardinality(Wanted(x)) /\ Cat(x) = Wanted(x)
      BY <1>1, <2>1 DEF IInv, Announced
  <2>2. \A x \in Tokens \ {t} : Wanted(x)' = Wanted(x) /\ Cat(x)' = Cat(x)
      BY <1>1, <1>8 DEF Wanted, Cat
  <2> QED BY <1>1, <1>8, <2>1, <2>2 DEF Announced, Wanted, Cat
<1>7. Answered'
  <2>1. \A x \in Tokens \ {t} : (Done(x)' <=> Done(x)) /\ (Short(x)' <=> Short(x))
      BY <1>1 DEF Done, Short, Gone, Left, stored
  <2>2. Done(t)' => f.at = "done" /\ (Short(t)' <=> ShortOf(t, f))
      BY <1>1 DEF Done, Short, ShortOf, Gone, Left, stored
  <2>3. ASSUME NEW x \in Tokens \ {t}, Done(x)'
        PROVE  /\ GoodAnswer(Size(x), fetch[x].header, fetch[x].answer)'
               /\ WholeAnswer(Size(x), fetch[x].header, fetch[x].answer)' \/ Short(x)'
      BY <1>1, <1>8, <2>1, <2>3 DEF IInv, Answered, GoodAnswer, WholeAnswer
  <2>4. ASSUME Done(t)'
        PROVE  /\ GoodAnswer(Size(t), fetch[t].header, fetch[t].answer)'
               /\ WholeAnswer(Size(t), fetch[t].header, fetch[t].answer)' \/ Short(t)'
      BY <1>1, <1>8, <2>2, <2>4 DEF GoodAnswer, WholeAnswer
  <2> QED BY <2>3, <2>4 DEF Answered
<1> QED BY <1>2, <1>4, <1>5, <1>6, <1>7 DEF IInv

\* The end of a fetch.
LEMMA EndKeepsInvariant ==
    ASSUME IInv, NEW t \in Tokens, NEW a \in AnswerRecord, NEW cut \in BOOLEAN, a.status # 0,
           GoodAnswer(Size(t), fetch[t].header, a),
           WholeAnswer(Size(t), fetch[t].header, a) \/ cut \/ Gone(t), End(t, a, cut),
           UNCHANGED <<stored, nodes, request, links, stray>>, links[t] \in LinkRecord
    PROVE  IInv'
<1>1. PICK x \in FetchRecord : x = fetch[t]
    BY DEF IInv, Shapes
<1>2. PICK f : f = [x EXCEPT !.at = "done", !.uri = "none", !.cut = cut, !.answer = a]
    BY Zenon
<1>3. Becomes(t, f)
    BY <1>1, <1>2 DEF End, Becomes
<1>4. /\ f \in FetchRecord /\ f.at = "done" /\ f.header = x.header /\ f.uri = "none"
      /\ f.cut = cut /\ f.answer = a
    BY <1>2 DEF FetchRecord
<1>5. GoodFetch(t, f)
    BY <1>1, <1>4 DEF GoodFetch, ShortOf
<1> QED BY <1>3, <1>5, FetchKeepsInvariant

\* The same of Reply.
GoodReply(size, h, status, count, body) ==
    LET a == [status |-> status, first |-> 0, count |-> count, body |-> body]
    IN GoodAnswer(size, h, a) /\ WholeAnswer(size, h, a)

LEMMA ReplyKeepsInvariant ==
    ASSUME IInv, NEW t \in Tokens, NEW status \in {200, 206, 416}, NEW count \in Nat,
           NEW body \in SUBSET Nat, GoodReply(Size(t), fetch[t].header, status, count, body),
           Reply(t, status, count, body),
           UNCHANGED <<stored, nodes, request, links, stray>>, links[t] \in LinkRecord
    PROVE  IInv'
<1> DEFINE a == [status |-> status, first |-> 0, count |-> count, body |-> body]
<1>1. a \in AnswerRecord /\ a.status # 0
    BY DEF AnswerRecord
<1>2. GoodAnswer(Size(t), fetch[t].header, a) /\ WholeAnswer(Size(t), fetch[t].header, a)
    BY DEF GoodReply
<1>3. PICK no \in BOOLEAN : ~no
    OBVIOUS
<1>4. End(t, a, no)
    BY <1>3 DEF Reply, End
<1> HIDE DEF a
<1> QED BY <1>1, <1>2, <1>4, EndKeepsInvariant

\* What a step of a fetch starts from.
LEMMA FetchContext ==
    ASSUME IInv, NEW t \in Tokens, fetch[t].at # "done"
    PROVE  /\ links[t] \in LinkRecord /\ fetch[t] \in FetchRecord /\ Size(t) \in Nat
           /\ fetch[t].header \in Header
<1>1. fetch[t] # NoFetch
    BY DEF NoFetch
<1>2. links[t] \in LinkRecord /\ fetch[t] \in FetchRecord
    BY <1>1 DEF IInv, Shapes
<1>3. Size(t) \in Nat
    BY <1>2 DEF IInv, Shapes, Size, LinkRecord
<1> QED BY <1>2, <1>3 DEF FetchRecord

\* A refusal says nothing of the file.
LEMMA RefuseKeepsInvariant ==
    ASSUME IInv, NEW t \in Tokens, fetch[t].at # "done", NEW status \in {403, 404},
           Refuse(t, status), UNCHANGED <<stored, nodes, request, links, stray>>
    PROVE  IInv'
<1>1. links[t] \in LinkRecord
    BY FetchContext
<1> DEFINE a == [Pending EXCEPT !.status = status]
<1>2. /\ a \in AnswerRecord /\ a.status = status
      /\ Becomes(t, [NoFetch EXCEPT !.answer = a])
    BY DEF Pending, AnswerRecord, Refuse, Becomes
<1> HIDE DEF a
<1> DEFINE f == [NoFetch EXCEPT !.answer = a]
<1>3. Becomes(t, f)
    BY <1>2
<1>4. NoFetch \in FetchRecord /\ NoFetch.at = "done" /\ NoFetch.uri = "none"
    BY NoFetchShape DEF NoFetch
<1>5. f \in FetchRecord /\ f.at = "done" /\ f.uri = "none" /\ f.answer = a
    BY <1>2, <1>4 DEF FetchRecord
<1>8. GoodFetch(t, f)
    BY <1>2, <1>5 DEF GoodFetch, GoodAnswer, WholeAnswer
<1> HIDE DEF f
<1> QED BY <1>1, <1>3, <1>8, FetchKeepsInvariant

\* A new fetch.
LEMMA AskKeepsInvariant ==
    ASSUME IInv, NEW t \in Tokens, NEW h \in Header, Ask(t, h)
    PROVE  IInv'
<1>1. links[t] \in LinkRecord /\ UNCHANGED <<stored, nodes, request, links, stray>>
    BY DEF IInv, Shapes, Ask
<1>2. PICK late \in BOOLEAN : late = (~links[t].live \/ row[links[t].dl] = "gone")
    OBVIOUS
<1>3. PICK f : f = [NoFetch EXCEPT !.at = "resolve", !.header = h, !.late = late]
    OBVIOUS
<1>4. Becomes(t, f)
    BY <1>2, <1>3 DEF Ask, Becomes
<1>5. f \in FetchRecord /\ f.at = "resolve" /\ f.uri = "none"
    BY <1>3, NoFetchShape DEF FetchRecord, NoFetch
<1>6. GoodFetch(t, f)
    BY <1>5 DEF GoodFetch
<1> QED BY <1>1, <1>4, <1>6, FetchKeepsInvariant

\* The link says where the file is, if it has not ended.
LEMMA ResolveKeepsInvariant ==
    ASSUME IInv, NEW t \in Tokens, ResolveDownloadToken(t) \/ ResolveFail(t)
    PROVE  IInv'
<1>1. fetch[t].at = "resolve" /\ UNCHANGED <<stored, nodes, request, links, stray>>
    BY DEF ResolveDownloadToken, ResolveFail
<1>2. links[t] \in LinkRecord /\ fetch[t] \in FetchRecord
    BY <1>1, FetchContext
<1>3. CASE Refuse(t, 403)
    BY <1>1, <1>3, RefuseKeepsInvariant
<1>4. CASE fetch' = [fetch EXCEPT ![t].at = "open", ![t].uri = links[t].uri]
  <2>1. PICK x \in FetchRecord : x = fetch[t]
      BY <1>2
  <2>2. PICK u \in {"local", "remote"} : u = links[t].uri
      BY <1>2 DEF LinkRecord
  <2>3. PICK f : f = [[x EXCEPT !.at = "open"] EXCEPT !.uri = u]
      OBVIOUS
  <2>4. Becomes(t, f)
      BY <1>4, <2>1, <2>2, <2>3 DEF IInv, Shapes, Becomes
  <2>5. f \in FetchRecord /\ f.at = "open" /\ f.uri = u
      BY <2>3 DEF FetchRecord
  <2>6. f.uri = "remote" => Left(links[t].dl)
      BY <2>2, <2>5 DEF IInv, Outlived
  <2>7. GoodFetch(t, f)
      BY <2>5, <2>6 DEF GoodFetch
  <2> QED BY <1>1, <1>2, <2>4, <2>7, FetchKeepsInvariant
<1> QED BY <1>3, <1>4 DEF ResolveDownloadToken, ResolveFail

\* http.ServeContent.
LEMMA OpenKeepsInvariant ==
    ASSUME IInv, NEW t \in Tokens, OpenLocal(t)
    PROVE  IInv'
<1>1. fetch[t].at = "open" /\ UNCHANGED <<stored, nodes, request, links, stray>>
    BY DEF OpenLocal
<1>2. links[t] \in LinkRecord /\ fetch[t].header \in Header /\ Size(t) \in Nat
    BY <1>1, FetchContext
<1>3. CASE Refuse(t, 404)
    BY <1>1, <1>3, RefuseKeepsInvariant
<1>4. CASE ServeContent(t)
  <2>1. PICK h \in Header, size \in Nat : h = fetch[t].header /\ size = Size(t)
      BY <1>2
  <2>2. PICK asked \in SUBSET Nat : asked = Asked(h, size) /\ Cardinality(asked) \in Nat
      BY <2>1, AskedIsFinite
  <2>3. PICK all \in SUBSET Nat : all = 0..(size - 1) /\ Cardinality(all) = size
      BY WholeFile
  <2>4. h.kind = "none" => asked = all
      BY <2>2, <2>3 DEF Asked
  <2>5. h.kind = "bad" => asked = {}
      BY <2>2 DEF Asked
  <2>6. \/ Reply(t, 200, size, all)
        \/ Reply(t, 206, Cardinality(asked), asked)
        \/ (asked = {} \/ h.kind \in {"list", "huge"}) /\ Reply(t, 416, 0, {})
      BY <1>4, <2>1, <2>2, <2>3, <2>4, <2>5, HeaderShape DEF ServeContent
  <2>7. ASSUME NEW status \in {200, 206, 416}, NEW count \in Nat, NEW body \in SUBSET Nat,
               status = 416 => asked = {} \/ h.kind \in {"list", "huge"},
               status = 200 => body = all, status = 206 => body = asked,
               status # 416 => count = Cardinality(body)
        PROVE  GoodReply(Size(t), fetch[t].header, status, count, body)
      BY <2>1, <2>2, <2>3, <2>7 DEF GoodReply, GoodAnswer, WholeAnswer, WantedOf, FromTheStart
  <2>8. CASE Reply(t, 200, size, all)
    <3>1. GoodReply(Size(t), fetch[t].header, 200, size, all)
        BY <2>3, <2>7
    <3> QED BY <1>1, <1>2, <2>1, <2>3, <2>8, <3>1, ReplyKeepsInvariant
  <2>9. CASE Reply(t, 206, Cardinality(asked), asked)
    <3>1. GoodReply(Size(t), fetch[t].header, 206, Cardinality(asked), asked)
        BY <2>2, <2>7
    <3> QED BY <1>1, <1>2, <2>2, <2>9, <3>1, ReplyKeepsInvariant
  <2>10. CASE (asked = {} \/ h.kind \in {"list", "huge"}) /\ Reply(t, 416, 0, {})
    <3>1. GoodReply(Size(t), fetch[t].header, 416, 0, {})
        BY <2>1, <2>2, <2>10 DEF GoodReply, GoodAnswer, WholeAnswer
    <3>2. {} \in SUBSET Nat
        OBVIOUS
    <3> QED BY <1>1, <1>2, <2>10, <3>1, <3>2, ReplyKeepsInvariant
  <2> QED BY <2>6, <2>8, <2>9, <2>10
<1> QED BY <1>3, <1>4 DEF OpenLocal

\* The size is known and the headers are sent.
LEMMA AnnounceKeepsInvariant ==
    ASSUME IInv, NEW t \in Tokens, NEW status \in {200, 206}, NEW first \in Nat,
           NEW count \in Nat, fetch[t].at # "done",
           GoodHeaders(t, fetch[t].header, fetch[t].uri,
                       [status |-> status, first |-> first, count |-> count, body |-> {}]),
           Announce(t, status, first, count), UNCHANGED <<stored, nodes, request, links, stray>>
    PROVE  IInv'
<1>1. PICK x \in FetchRecord : x = fetch[t]
    BY DEF IInv, Shapes
<1>2. PICK a : a = [status |-> status, first |-> first, count |-> count, body |-> {}]
    OBVIOUS
<1>3. PICK f : f = [x EXCEPT !.at = "cat", !.answer = a]
    OBVIOUS
<1>4. Becomes(t, f)
    BY <1>1, <1>2, <1>3 DEF Announce, Becomes
<1>5. a \in AnswerRecord
    BY <1>2 DEF AnswerRecord
<1>6. /\ f \in FetchRecord /\ f.at = "cat" /\ f.uri = x.uri /\ f.header = x.header
      /\ f.answer = a
    BY <1>3, <1>5 DEF FetchRecord
<1>7. GoodHeaders(t, f.header, f.uri, f.answer)
    BY <1>1, <1>2, <1>6
<1>8. f.uri = "remote" => Left(links[t].dl)
    BY <1>1, <1>6 DEF IInv, Outlived
<1>9. GoodFetch(t, f)
    BY <1>6, <1>7, <1>8 DEF GoodFetch
<1>10. links[t] \in LinkRecord
    BY FetchContext
<1> QED BY <1>4, <1>9, <1>10, FetchKeepsInvariant

\* Of what parseRangeHeader returns, the answer takes what is asked for.
LEMMA SizeKeepsInvariant ==
    ASSUME IInv, NEW t \in Tokens, fileSize(t)
    PROVE  IInv'
<1>1. /\ fetch[t].at = "open" /\ UNCHANGED <<stored, nodes, request, links, stray>>
      /\ fetch[t].uri = "remote"
    BY DEF fileSize, Streamed
<1>2. PICK h \in Header, size \in Nat : h = fetch[t].header /\ size = Size(t)
    BY <1>1, FetchContext
<1>3. ASSUME NEW status \in {200, 206}, NEW first \in Nat, NEW count \in Nat,
             count = Cardinality(WantedOf(status, h, size)),
             WantedOf(status, h, size) = {p \in 0..(size - 1) : p >= first /\ p < first + count},
             Announce(t, status, first, count)
      PROVE  IInv'
  <2>1. GoodHeaders(t, fetch[t].header, fetch[t].uri,
                    [status |-> status, first |-> first, count |-> count, body |-> {}])
      BY <1>1, <1>2, <1>3 DEF GoodHeaders
  <2>2. fetch[t].at # "done"
      BY <1>1
  <2>3. Announce(t, status, first, count) /\ UNCHANGED <<stored, nodes, request, links, stray>>
      BY <1>1, <1>3
  <2> QED BY <2>1, <2>2, <2>3, AnnounceKeepsInvariant
<1>4. PICK range : range = parseRangeHeader(h, size)
    OBVIOUS
<1>5. \/ Refuse(t, 404) \/ (Reply(t, 416, 0, {}) /\ h.kind # "none" /\ ~range.ok)
      \/ h.kind = "none" /\ Announce(t, 200, 0, size)
      \/ /\ h.kind # "none" /\ range.ok
         /\ Announce(t, 206, range.first, range.last - range.first + 1)
  <2>1. LET g == fetch[t].header
            r == parseRangeHeader(g, Size(t))
        IN \/ Refuse(t, 404) \/ (Reply(t, 416, 0, {}) /\ g.kind # "none" /\ ~r.ok)
           \/ g.kind = "none" /\ Announce(t, 200, 0, Size(t))
           \/ /\ g.kind # "none" /\ r.ok
              /\ Announce(t, 206, r.first, r.last - r.first + 1)
      BY DEF fileSize
  <2> QED BY <1>2, <1>4, <2>1
<1>6. CASE Refuse(t, 404)
    BY <1>1, <1>6, RefuseKeepsInvariant
<1>7. CASE Reply(t, 416, 0, {}) /\ h.kind # "none" /\ ~range.ok
  <2>1. Asked(h, size) = {} \/ h.kind \in {"list", "huge"}
      BY <1>4, <1>7, ParsedRange
  <2>2. GoodReply(Size(t), fetch[t].header, 416, 0, {})
      BY <1>2, <2>1 DEF GoodReply, GoodAnswer, WholeAnswer
  <2>3. links[t] \in LinkRecord
      BY <1>1, FetchContext
  <2> QED BY <1>1, <1>7, <2>2, <2>3, ReplyKeepsInvariant
<1>8. CASE h.kind = "none" /\ Announce(t, 200, 0, size)
  <2>1. WantedOf(200, h, size) = 0..(size - 1) /\ size = Cardinality(WantedOf(200, h, size))
      BY WholeFile DEF WantedOf
  <2>2. WantedOf(200, h, size) = {p \in 0..(size - 1) : p >= 0 /\ p < 0 + size}
      BY <2>1
  <2> QED BY <1>3, <1>8, <2>1, <2>2
<1>9. CASE /\ h.kind # "none" /\ range.ok
           /\ Announce(t, 206, range.first, range.last - range.first + 1)
  <2>1. PICK first \in Nat, last \in Int : first = range.first /\ last = range.last
      BY <1>4, <1>9, ParsedRange
  <2>2. PICK count \in Nat : count = last - first + 1
      BY <1>4, <1>9, <2>1, ParsedRange
  <2>3. Asked(h, size) = first..last /\ Cardinality(Asked(h, size)) = count
      BY <1>4, <1>9, <2>1, <2>2, ParsedRange
  <2>4. Asked(h, size) \subseteq 0..(size - 1)
      BY DEF Asked
  <2>5. Asked(h, size) = {p \in 0..(size - 1) : p >= first /\ p < first + count}
    <3>1. \A p \in 0..(size - 1) : (p \in first..last) <=> (p >= first /\ p < first + count)
        BY <2>2
    <3> QED BY <2>3, <2>4, <3>1
  <2>6. Announce(t, 206, first, count)
      BY <1>9, <2>1, <2>2
  <2>7. WantedOf(206, h, size) = Asked(h, size)
      BY DEF WantedOf
  <2> QED BY <1>3, <2>3, <2>5, <2>6, <2>7
<1> QED BY <1>5, <1>6, <1>7, <1>8, <1>9

\* rclone cat sends what was announced, up to where it fails.
LEMMA ServeKeepsInvariant ==
    ASSUME IInv, NEW t \in Tokens, ServeFile(t) \/ CatFail(t)
    PROVE  IInv'
<1>1. PICK cut \in BOOLEAN : CatEnds(t, cut)
    BY DEF ServeFile, CatFail
<1>2. fetch[t].at = "cat" /\ UNCHANGED <<stored, nodes, request, links, stray>>
    BY <1>1 DEF CatEnds
<1>3. links[t] \in LinkRecord /\ Size(t) \in Nat /\ fetch[t].uri = "remote"
    BY <1>2, FetchContext DEF IInv, Announced
<1>4. PICK x \in AnswerRecord : x = fetch[t].answer
    BY <1>2, FetchContext DEF FetchRecord
<1>5. PICK wanted : wanted = WantedOf(x.status, fetch[t].header, Size(t))
    OBVIOUS
<1>6. /\ x.status \in {200, 206} /\ x.count = Cardinality(wanted) /\ Cat(t) = wanted
      /\ wanted \subseteq 0..(Size(t) - 1)
    BY <1>2, <1>4, <1>5 DEF IInv, Announced, Wanted, Cat
<1>7. PICK limit \in 0..Size(t) :
        /\ limit = Size(t) \/ cut \/ links[t].dl \notin remote
        /\ End(t, [fetch[t].answer EXCEPT !.first = 0, !.body = {p \in Cat(t) : p < limit}], cut)
    BY <1>1, Zenon DEF CatEnds
<1>8. PICK body : body = {p \in Cat(t) : p < limit}
    OBVIOUS
<1>9. /\ FromTheStart(body, wanted) /\ body \in SUBSET Nat
      /\ limit = Size(t) => body = wanted
    BY <1>3, <1>6, <1>8 DEF FromTheStart
<1>10. PICK a : a = [x EXCEPT !.first = 0, !.body = body]
    BY Zenon
<1>11. /\ a \in AnswerRecord /\ a.status = x.status /\ a.count = x.count /\ a.body = body
  <2>1. /\ x = [status |-> x.status, first |-> x.first, count |-> x.count, body |-> x.body]
        /\ x.status \in {0, 200, 206, 403, 404, 416} /\ x.count \in Nat
      BY DEF AnswerRecord
  <2>2. a = [status |-> x.status, first |-> 0, count |-> x.count, body |-> body]
      BY <1>10, <2>1
  <2> QED BY <1>9, <2>1, <2>2 DEF AnswerRecord
<1>15. End(t, a, cut)
    BY <1>4, <1>7, <1>8, <1>10 DEF End
<1>12. Left(links[t].dl)
    BY <1>3 DEF IInv, Outlived
<1>13. /\ GoodAnswer(Size(t), fetch[t].header, a)
       /\ WholeAnswer(Size(t), fetch[t].header, a) \/ cut \/ Gone(t)
    BY <1>5, <1>6, <1>7, <1>9, <1>11, <1>12 DEF GoodAnswer, WholeAnswer, Gone
<1> QED BY <1>2, <1>3, <1>6, <1>11, <1>13, <1>15, EndKeepsInvariant

-----------------------------------------------------------------------------
\* What is told and sent is right at every moment of every run.
THEOREM Invariance == Spec => []IInv
<1>1. ASSUME IInv, [Next]_vars PROVE IInv'
  <2>1. CASE UNCHANGED vars
    <3>1. TypeOK'
        BY <1>1, <2>1 DEF IInv, TypeOK, vars, stored, nodes
    <3> QED BY <1>1, <2>1, <3>1, FilesKeepInvariant
              DEF vars, stored, nodes, IInv, TypeOK, Outlived, Left, NoRequest
  <2>2. ASSUME NEW t \in Tokens, FetchStep(t) PROVE IInv'
    <3>1. CASE ServeFail(t)
      <4>1. fetch[t].at # "done" /\ Refuse(t, 404) /\ UNCHANGED <<stored, nodes, request, links, stray>>
          BY <3>1 DEF ServeFail
      <4> QED BY <1>1, <4>1, RefuseKeepsInvariant
    <3> QED BY <1>1, <2>2, <3>1, ResolveKeepsInvariant, OpenKeepsInvariant, SizeKeepsInvariant,
               ServeKeepsInvariant DEF FetchStep
  <2> QED BY <1>1, <2>1, <2>2, DownloadStepKeepsInvariant, OtherStepKeepsInvariant,
             LinkStepKeepsInvariant, CrashKeepsInvariant, AskKeepsInvariant DEF Next
<1> QED BY <1>1, InitHolds, PTL DEF Spec

\* The state of links and fetches has the shape TypeOK says.
THEOREM TypeCorrect == Spec => []TypeOK
BY Invariance, PTL DEF IInv

\* Clients are told how many bytes they get and are sent those they asked for, up
\* to where rclone fails or the file goes, and refused only a range of which there
\* is nothing, or that is a list or too long to be read.
THEOREM RangesRight == Spec => []BytesAsAsked
<1>1. IInv => BytesAsAsked
    BY DEF IInv, Answered, BytesAsAsked, GoodAnswer, WholeAnswer, Short, Gone, Wanted, Done, Sent
<1> QED BY <1>1, Invariance, PTL

-----------------------------------------------------------------------------
(***************************************************************************)
(* Links that ended.  A link that is valid has its download, so that a     *)
(* fetch that was late finds its link invalid when it is resolved, and is  *)
(* never opened.                                                           *)
(***************************************************************************)
OnTime(t) == /\ links[t].live => row[links[t].dl] # "gone"
             /\ fetch[t].late => /\ fetch[t].at \notin {"open", "cat"} /\ ~Sent(t)
                                 /\ fetch[t].at = "resolve" => ~links[t].live
Timely == \A t \in Tokens : OnTime(t)

\* Steps that change no link and no fetch and delete no download.
LEMMA FilesKeepTimely ==
    ASSUME IInv, Timely, UNCHANGED <<links, fetch>>,
           \A d \in Downloads : row'[d] = "gone" => row[d] = "gone"
    PROVE  Timely'
<1>1. \A t \in Tokens : links[t].live => links[t].dl \in Downloads
    BY DEF IInv, Shapes, LinkRecord, NoLink
<1> QED BY <1>1 DEF Timely, OnTime, Sent, Done

\* Completion, upload and the removal of files delete no download.
LEMMA DownloadStepKeepsTimely ==
    ASSUME IInv, Timely, NEW d \in Downloads,
           Complete(d) \/ Upload(d) \/ Record(d) \/ UploadClean(d) \/ RemoveFiles(d) \/ LinkRow(d)
    PROVE  Timely'
<1>1. row \in [Downloads -> {"running", "local", "remote", "gone"}]
    BY DEF IInv, TypeOK
<1>2. /\ UNCHANGED <<links, fetch>>
      /\ \/ row' = row \/ row' = [row EXCEPT ![d] = "local"]
         \/ row' = [row EXCEPT ![d] = "remote"]
    BY DEF Complete, Upload, Record, UploadClean, RemoveFiles, LinkRow, stored
<1>3. \A x \in Downloads : row'[x] = "gone" => row[x] = "gone"
    BY <1>1, <1>2
<1> QED BY <1>2, <1>3, FilesKeepTimely

\* A link ends with its download; none is made of one that is gone.
LEMMA LinkStepKeepsTimely ==
    ASSUME IInv, Timely,
           \/ \E d \in Downloads : RewriteLinks(d) \/ Delete(d)
           \/ \E t \in Tokens : Expire(t) \/ \E n \in Nodes : LinkCreate(t, n)
    PROVE  Timely'
<1>1. /\ \A t \in Tokens : links[t] = NoLink \/ links[t] \in LinkRecord
      /\ row \in [Downloads -> {"running", "local", "remote", "gone"}]
      /\ links \in [Tokens -> LinkRecord \cup {NoLink}]
      /\ ~NoLink.live /\ NoLink.dl \notin Downloads
    BY FileServingAssumption DEF IInv, TypeOK, Shapes, NoLink
<1>2. ASSUME NEW t \in Tokens, NEW n \in Nodes, LinkCreate(t, n) PROVE Timely'
  <2>1. CASE links' = links
      BY <1>2, <2>1, FilesKeepTimely DEF LinkCreate, stored
  <2>2. CASE links' # links
    <3>1. PICK l : l = [dl |-> request.dl, uri |-> request.loc, node |-> n, live |-> TRUE]
        OBVIOUS
    <3>2. /\ links[t] = NoLink /\ links' = [links EXCEPT ![t] = l] /\ row[request.dl] # "gone"
          /\ UNCHANGED <<row, fetch>>
        BY <1>2, <2>2, <3>1 DEF LinkCreate, NewLink, stored
    <3>3. fetch[t] = NoFetch
        BY <3>2 DEF IInv, Shapes, NoLink, LinkRecord
    <3>4. OnTime(t)'
        BY <1>1, <3>1, <3>2, <3>3 DEF OnTime, Sent, Done, NoFetch
    <3>5. \A x \in Tokens \ {t} : OnTime(x)'
        BY <1>1, <3>2 DEF Timely, OnTime, Sent, Done
    <3> QED BY <3>4, <3>5 DEF Timely
  <2> QED BY <2>1, <2>2
<1>3. ASSUME UNCHANGED fetch,
             \A t \in Tokens : links'[t].live =>
                /\ links[t].live /\ links'[t].dl = links[t].dl
                /\ row'[links[t].dl] = "gone" => row[links[t].dl] = "gone"
      PROVE  Timely'
    BY <1>3 DEF Timely, OnTime, Sent, Done
<1>4. ASSUME NEW t \in Tokens, Expire(t) PROVE Timely'
  <2>1. /\ links' = [links EXCEPT ![t] = [links[t] EXCEPT !.live = FALSE]]
        /\ UNCHANGED <<row, fetch>> /\ links[t] \in LinkRecord
      BY <1>1, <1>4 DEF Expire, Ended, stored
  <2>2. \A x \in Tokens : links'[x].live => links'[x] = links[x]
      BY <1>1, <2>1 DEF LinkRecord
  <2> QED BY <1>3, <2>1, <2>2
<1>5. ASSUME NEW d \in Downloads, Delete(d) PROVE Timely'
  <2>1. /\ links' = [t \in Tokens |-> IF links[t].dl = d THEN [links[t] EXCEPT !.live = FALSE]
                                                        ELSE links[t]]
        /\ row' = [row EXCEPT ![d] = "gone"] /\ UNCHANGED fetch
      BY <1>5 DEF Delete, Ended
  <2>2. ASSUME NEW t \in Tokens, links'[t].live
        PROVE  links'[t] = links[t] /\ links[t].dl # d
    <3>1. CASE links[t] = NoLink
        BY <1>1, <2>1, <2>2, <3>1
    <3>2. CASE links[t] \in LinkRecord
        BY <2>1, <2>2, <3>2 DEF LinkRecord
    <3> QED BY <1>1, <3>1, <3>2
  <2>3. \A x : (x # d /\ x \in Downloads /\ row'[x] = "gone") => row[x] = "gone"
      BY <1>1, <2>1
  <2>4. \A t \in Tokens : links[t].live => links[t].dl \in Downloads
      BY <1>1 DEF LinkRecord
  <2> QED BY <1>3, <2>1, <2>2, <2>3, <2>4
<1>6. ASSUME NEW d \in Downloads, RewriteLinks(d) PROVE Timely'
  <2>1. /\ \/ links' = links
           \/ links' = [t \in Tokens |-> IF links[t].dl = d THEN [links[t] EXCEPT !.uri = "remote"]
                                                            ELSE links[t]]
        /\ UNCHANGED <<row, fetch>>
      BY <1>6 DEF RewriteLinks, Follow
  <2>2. ASSUME NEW t \in Tokens
        PROVE  links'[t].live => links[t].live /\ links'[t].dl = links[t].dl
    <3>1. CASE links[t] = NoLink
        BY <1>1, <2>1, <3>1
    <3>2. CASE links[t] \in LinkRecord
        BY <2>1, <3>2 DEF LinkRecord
    <3> QED BY <1>1, <3>1, <3>2
  <2> QED BY <1>3, <2>1, <2>2
<1> QED BY <1>2, <1>4, <1>5, <1>6

\* Steps of fetches.  Only what is not late is opened, and only what was opened is
\* sent anything.
LEMMA FetchStepKeepsTimely ==
    ASSUME IInv, Timely, NEW t \in Tokens, FetchStep(t) \/ \E h \in Header : Ask(t, h)
    PROVE  Timely'
<1>1. UNCHANGED <<stored, nodes, request, links, stray>> /\ fetch \in [Tokens -> FetchRecord]
  <2>1. UNCHANGED <<stored, nodes, request, links, stray>>
      BY Zenon DEF FetchStep, ResolveDownloadToken, ResolveFail, OpenLocal, fileSize, ServeFile,
                   CatFail, CatEnds, ServeFail, Ask
  <2> QED BY <2>1 DEF IInv, Shapes
<1>2. PICK x \in FetchRecord : x = fetch[t]
    BY <1>1
<1>3. ASSUME NEW f, Becomes(t, f),
             f.late => /\ f.at \notin {"open", "cat"}
                       /\ f.at = "resolve" => ~links[t].live
                       /\ f.at = "done" => f.answer.status \notin {200, 206}
      PROVE  Timely'
  <2>1. fetch'[t] = f /\ \A y \in Tokens \ {t} : fetch'[y] = fetch[y]
      BY <1>1, <1>3 DEF Becomes
  <2>2. OnTime(t)'
      BY <1>1, <1>3, <2>1 DEF Timely, OnTime, Sent, Done, stored
  <2>3. \A y \in Tokens \ {t} : OnTime(y)'
      BY <1>1, <2>1 DEF Timely, OnTime, Sent, Done, stored
  <2> QED BY <2>2, <2>3 DEF Timely
<1>4. ASSUME NEW a, NEW cut, End(t, a, cut), x.late => a.status \notin {200, 206}
      PROVE  Timely'
  <2>1. PICK f : f = [x EXCEPT !.at = "done", !.uri = "none", !.cut = cut, !.answer = a]
      BY Zenon
  <2>2. Becomes(t, f)
      BY <1>2, <1>4, <2>1 DEF End, Becomes
  <2>3. f.late = x.late /\ f.at = "done" /\ f.answer = a
      BY <2>1 DEF FetchRecord
  <2> QED BY <1>3, <1>4, <2>2, <2>3
<1>5. x.late => x.at \notin {"open", "cat"} /\ (x.at = "resolve" => ~links[t].live)
    BY <1>2 DEF Timely, OnTime
<1>6. ASSUME NEW status, NEW first, NEW count, Announce(t, status, first, count), ~x.late
      PROVE  Timely'
  <2>1. PICK a : a = [status |-> status, first |-> first, count |-> count, body |-> {}]
      OBVIOUS
  <2>2. PICK f : f = [x EXCEPT !.at = "cat", !.answer = a]
      BY Zenon
  <2>3. Becomes(t, f)
      BY <1>2, <1>6, <2>1, <2>2 DEF Announce, Becomes
  <2>4. f.late = x.late
      BY <2>2 DEF FetchRecord
  <2> QED BY <1>3, <1>6, <2>3, <2>4
<1>7. CASE \E status \in {403, 404} : Refuse(t, status)
  <2>1. PICK status \in {403, 404} : Refuse(t, status)
      BY <1>7
  <2> DEFINE a == [Pending EXCEPT !.status = status]
             f == [NoFetch EXCEPT !.answer = a]
  <2>2. Becomes(t, f) /\ f.at = "done" /\ f.answer = a /\ a.status = status
      BY <2>1 DEF Refuse, Becomes, NoFetch, Pending
  <2> HIDE DEF f, a
  <2> QED BY <1>3, <2>2
<1>8. CASE ResolveDownloadToken(t) /\ links[t].live
  <2>1. x.at = "resolve" /\ fetch' = [fetch EXCEPT ![t].at = "open", ![t].uri = links[t].uri]
      BY <1>2, <1>8 DEF ResolveDownloadToken
  <2>2. PICK f : f = [[x EXCEPT !.at = "open"] EXCEPT !.uri = links[t].uri]
      OBVIOUS
  <2>3. Becomes(t, f)
      BY <1>1, <1>2, <2>1, <2>2 DEF Becomes
  <2>4. f.late = x.late
      BY <2>2 DEF FetchRecord
  <2> QED BY <1>3, <1>5, <1>8, <2>1, <2>3, <2>4
<1>9. CASE OpenLocal(t) \/ fileSize(t)
  <2>1. ~x.late
      BY <1>2, <1>5, <1>9 DEF OpenLocal, fileSize
  <2>2. \/ Refuse(t, 404) \/ \E a, cut : End(t, a, cut)
        \/ \E status, first, count : Announce(t, status, first, count)
      BY <1>9, Zenon DEF OpenLocal, ServeContent, fileSize, Reply
  <2> QED BY <1>4, <1>6, <1>7, <2>1, <2>2
<1>10. CASE ServeFile(t) \/ CatFail(t)
  <2>1. PICK cut : CatEnds(t, cut)
      BY <1>10 DEF ServeFile, CatFail
  <2>2. ~x.late
      BY <1>2, <1>5, <2>1 DEF CatEnds
  <2>3. \E a : End(t, a, cut)
      BY <2>1, Zenon DEF CatEnds
  <2> QED BY <1>4, <2>2, <2>3
<1>11. ASSUME NEW h \in Header, Ask(t, h) PROVE Timely'
  <2> DEFINE late == ~links[t].live \/ row[links[t].dl] = "gone"
             f == [NoFetch EXCEPT !.at = "resolve", !.header = h, !.late = late]
  <2>1. Becomes(t, f)
      BY <1>11, Zenon DEF Ask, Becomes
  <2>2. f.at = "resolve" /\ (f.late => late)
      BY DEF NoFetch
  <2>3. late => ~links[t].live
      BY DEF Timely, OnTime
  <2> HIDE DEF f, late
  <2> QED BY <1>3, <2>1, <2>2, <2>3
<1>12. (ResolveDownloadToken(t) /\ ~links[t].live) \/ ResolveFail(t) \/ ServeFail(t)
         => \E status \in {403, 404} : Refuse(t, status)
    BY DEF ResolveDownloadToken, ResolveFail, ServeFail
<1> QED BY <1>7, <1>8, <1>9, <1>10, <1>11, <1>12 DEF FetchStep

\* Who comes after the end of a link, or the deletion of its download, is sent
\* nothing.
THEOREM LateGetsNothing == Spec => []EndedServesNothing
<1>1. Init => Timely
    BY DEF Init, Timely, OnTime, Sent, Done, NoFetch, NoLink
<1>2. ASSUME IInv, Timely, [Next]_vars PROVE Timely'
  <2>1. CASE UNCHANGED vars
      BY <1>2, <2>1, FilesKeepTimely DEF vars, stored
  <2>2. ASSUME LinkList \/ GenerateURL \/ LinkFail PROVE Timely'
      BY <1>2, <2>2, FilesKeepTimely DEF LinkList, GenerateURL, LinkFail, stored
  <2>3. ASSUME NEW n \in Nodes, Start(n) \/ SetRemoteProvider(n) \/ Reconcile(n) PROVE Timely'
      BY <1>2, <2>3, FilesKeepTimely DEF Start, SetRemoteProvider, Reconcile, stored
  <2>4. ASSUME NEW n \in Nodes, Crash(n) PROVE Timely'
    <3>1. /\ UNCHANGED <<row, links>>
          /\ \A t \in Tokens : fetch'[t] = NoFetch \/ fetch'[t] = fetch[t]
        BY <2>4 DEF Crash
    <3>2. NoFetch.at = "done"
        BY DEF NoFetch
    <3>3. ASSUME NEW t \in Tokens PROVE OnTime(t)'
      <4>1. CASE fetch'[t] = NoFetch
          BY <1>2, <3>1, <3>2, <4>1 DEF Timely, OnTime, Sent, Done
      <4>2. CASE fetch'[t] = fetch[t]
          BY <1>2, <3>1, <4>2 DEF Timely, OnTime, Sent, Done
      <4> QED BY <3>1, <4>1, <4>2
    <3> QED BY <3>3 DEF Timely
  <2> QED BY <1>2, <2>1, <2>2, <2>3, <2>4, DownloadStepKeepsTimely, LinkStepKeepsTimely,
             FetchStepKeepsTimely DEF Next
<1>3. Timely => EndedServesNothing
    BY DEF Timely, OnTime, EndedServesNothing
<1> QED BY <1>1, <1>2, <1>3, Invariance, PTL DEF Spec

-----------------------------------------------------------------------------
(***************************************************************************)
(* Valid links.  Their download is there, on the disk while its row says   *)
(* so, and no upload that has recorded it lets go of a local link before   *)
(* it has rewritten it, unless the link is stray (Held).  A remote link    *)
(* has a remote row (Outlived), and remote rows have their files (Stands). *)
(***************************************************************************)
Stands(d) ==
    /\ row[d] = "remote" => d \in remote
    /\ moving[d] = "record" => row[d] \in {"local", "gone"} /\ (row[d] = "local" => d \in remote)
    /\ cleaning[d] # "no" => row[d] = "gone"
HoldsLocal(d) == /\ row[d] = "local" => d \in disk
                 /\ row[d] = "remote" => moving[d] = "links"
                 /\ moving[d] # "clean"
Held(t) == links[t].live =>
    /\ row[links[t].dl] \in {"local", "remote"}
    /\ links[t].uri = "local" => HoldsLocal(links[t].dl) \/ t \in stray
Asking == request # NoRequest => row[request.dl] # "running"
Kept == Asking /\ (\A d \in Downloads : Stands(d)) /\ \A t \in Tokens : Held(t)

\* What the state is made of.
LEMMA LinkContext ==
    ASSUME IInv
    PROVE  /\ row \in [Downloads -> {"running", "local", "remote", "gone"}]
           /\ moving \in [Downloads -> {"no", "record", "links", "clean"}]
           /\ cleaning \in [Downloads -> {"no", "local", "remote"}]
           /\ \A d \in Downloads : moving[d] = "links" => row[d] \in {"remote", "gone"}
           /\ links \in [Tokens -> LinkRecord \cup {NoLink}]
           /\ request = NoRequest \/ request \in
                [dl: Downloads, at: {"list", "make"}, loc: {"local", "remote"}]
           /\ \A t \in Tokens : links[t] = NoLink \/ links[t] \in LinkRecord
           /\ \A t \in Tokens : links[t].live => links[t].dl \in Downloads
BY DEF IInv, TypeOK, Shapes, Outlived, Left, LinkRecord, NoLink

\* Steps of one download that leave links and requests alone.
LEMMA DownloadStepKeepsLinks ==
    ASSUME IInv, Kept, NEW d \in Downloads,
           Complete(d) \/ Upload(d) \/ Record(d) \/ UploadClean(d) \/ RemoveFiles(d)
    PROVE  Kept'
<1> USE LinkContext DEF Kept, Stands, Held, HoldsLocal, Asking
<1>1. CASE Complete(d)
    BY <1>1 DEF Complete
<1>2. CASE Upload(d)
    BY <1>2 DEF Upload
<1>3. CASE Record(d)
  <2>1. CASE stray' = stray
    <3>1. /\ moving[d] = "record" /\ UNCHANGED <<disk, remote, cleaning, request, links>>
          /\ \/ /\ row[d] = "local" /\ row' = [row EXCEPT ![d] = "remote"]
                /\ moving' = [moving EXCEPT ![d] = "links"]
             \/ row' = row /\ moving' = [moving EXCEPT ![d] = "no"]
             \/ row' = row /\ moving' = [moving EXCEPT ![d] = "clean"]
                /\ LocalLinks(d) \subseteq stray
        BY <1>3, <2>1 DEF Record
    <3>2. ASSUME LocalLinks(d) \subseteq stray
          PROVE  \A t \in Tokens : links[t].dl = d /\ links[t].uri = "local" => t \in stray
        BY <3>2 DEF LocalLinks
    <3> QED BY <2>1, <3>1, <3>2
  <2>2. CASE stray' = stray \cup LocalLinks(d) /\ UNCHANGED row
    <3>1. \A t \in Tokens : links[t].dl = d /\ links[t].uri = "local" => t \in stray'
        BY <2>2 DEF LocalLinks
    <3>2. stray \subseteq stray'
        BY <2>2
    <3> QED BY <1>3, <2>2, <3>1, <3>2 DEF Record
  <2> QED BY <1>3, <2>1, <2>2 DEF Record
<1>4. CASE UploadClean(d)
    BY <1>4 DEF UploadClean
<1>5. CASE RemoveFiles(d)
    BY <1>5 DEF RemoveFiles
<1> QED BY <1>1, <1>2, <1>3, <1>4, <1>5

\* A download's links follow its files, and end with it.
LEMMA LinksStepKeepsLinks ==
    ASSUME IInv, Kept, NEW d \in Downloads, RewriteLinks(d) \/ Delete(d)
    PROVE  Kept'
<1> USE DEF Kept, Stands, Held, HoldsLocal, Asking
<1>1. CASE RewriteLinks(d)
  <2>1. /\ moving[d] = "links" /\ moving' = [moving EXCEPT ![d] = "clean"]
        /\ UNCHANGED <<row, disk, remote, cleaning, request>>
      BY <1>1 DEF RewriteLinks
  <2>2. CASE Follow(d) /\ UNCHANGED stray
    <3>1. ASSUME NEW t \in Tokens
          PROVE  \/ links'[t] = links[t] /\ links[t].dl # d
                 \/ links'[t].uri = "remote" /\ links'[t].dl = d /\ links[t].dl = d
                    /\ links'[t].live = links[t].live
      <4>1. links'[t] = IF links[t].dl = d THEN [links[t] EXCEPT !.uri = "remote"] ELSE links[t]
          BY <2>2 DEF Follow
      <4>2. CASE links[t] = NoLink
          BY <4>1, <4>2, FileServingAssumption DEF NoLink
      <4>3. CASE links[t] \in LinkRecord
          BY <4>1, <4>3 DEF LinkRecord
      <4> QED BY <4>2, <4>3, LinkContext
    <3> QED BY <2>1, <2>2, <3>1, LinkContext
  <2>3. CASE stray' = stray \cup LocalLinks(d) /\ UNCHANGED links
    <3>1. \A t \in Tokens : links[t].dl = d /\ links[t].uri = "local" => t \in stray'
        BY <2>3 DEF LocalLinks
    <3>2. stray \subseteq stray'
        BY <2>3
    <3> QED BY <2>1, <2>3, <3>1, <3>2, LinkContext
  <2> QED BY <1>1, <2>2, <2>3 DEF RewriteLinks
<1>2. CASE Delete(d)
  <2>1. /\ row' = [row EXCEPT ![d] = "gone"] /\ cleaning' = [cleaning EXCEPT ![d] = row[d]]
        /\ UNCHANGED <<disk, remote, moving, request, stray>>
      BY <1>2 DEF Delete
  <2>2. ASSUME NEW t \in Tokens, links'[t].live
        PROVE  links'[t] = links[t] /\ links[t].dl # d
    <3>1. links'[t] = IF links[t].dl = d THEN [links[t] EXCEPT !.live = FALSE] ELSE links[t]
        BY <1>2 DEF Delete, Ended
    <3>2. CASE links[t] = NoLink
        BY <2>2, <3>1, <3>2, FileServingAssumption DEF NoLink
    <3>3. CASE links[t] \in LinkRecord
        BY <2>2, <3>1, <3>3 DEF LinkRecord
    <3> QED BY <3>2, <3>3, LinkContext
  <2> QED BY <2>1, <2>2, LinkContext
<1> QED BY <1>1, <1>2

\* GenerateLink, expiry and the ends and starts of nodes.
LEMMA OtherStepKeepsLinks ==
    ASSUME IInv, Kept,
           \/ LinkList \/ GenerateURL \/ LinkFail \/ \E d \in Downloads : LinkRow(d)
           \/ \E t \in Tokens : Expire(t) \/ \E n \in Nodes : LinkCreate(t, n)
           \/ \E n \in Nodes : Crash(n) \/ Start(n) \/ SetRemoteProvider(n) \/ Reconcile(n)
    PROVE  Kept'
<1> USE DEF Kept, Stands, Held, HoldsLocal, Asking
<1>1. CASE LinkList \/ GenerateURL \/ LinkFail
  <2>1. /\ request' = NoRequest \/ (request.at = "list" /\ request' = [request EXCEPT !.at = "make"])
        /\ UNCHANGED <<stored, links, stray>>
      BY <1>1 DEF LinkList, GenerateURL, LinkFail
  <2>2. request' = NoRequest \/ (request # NoRequest /\ request'.dl = request.dl)
      BY <2>1, LinkContext DEF NoRequest
  <2> QED BY <2>1, <2>2 DEF stored
<1>2. ASSUME NEW d \in Downloads, LinkRow(d) PROVE Kept'
  <2>1. /\ \E r : request' = [dl |-> d, at |-> "list", loc |-> r]
        /\ row[d] # "running" /\ UNCHANGED <<stored, links, stray>>
      BY <1>2 DEF LinkRow, GetDownloadWithJobByUser
  <2>2. request'.dl = d
      BY <2>1
  <2> QED BY <2>1, <2>2 DEF stored
<1>3. ASSUME NEW t \in Tokens, Expire(t) PROVE Kept'
  <2>1. links[t] \in LinkRecord /\ links \in [Tokens -> LinkRecord \cup {NoLink}]
      BY <1>3, LinkContext DEF Expire, NoLink
  <2>2. /\ links' = [links EXCEPT ![t] = [links[t] EXCEPT !.live = FALSE]]
        /\ UNCHANGED <<stored, request, stray>>
      BY <1>3 DEF Expire, Ended
  <2>3. \A x \in Tokens : links'[x].live => links'[x] = links[x]
      BY <2>1, <2>2 DEF LinkRecord
  <2> QED BY <2>2, <2>3 DEF stored
<1>4. ASSUME NEW t \in Tokens, NEW n \in Nodes, LinkCreate(t, n) PROVE Kept'
  <2>1. CASE row[request.dl] = "gone"
      BY <1>4, <2>1 DEF LinkCreate, stored
  <2>2. CASE row[request.dl] # "gone"
    <3> DEFINE l == [dl |-> request.dl, uri |-> request.loc, node |-> n, live |-> TRUE]
    <3>1. /\ request # NoRequest /\ links' = [links EXCEPT ![t] = l] /\ request' = NoRequest
          /\ stray' = (IF Overtaken THEN stray \cup {t} ELSE stray) /\ UNCHANGED stored
        BY <1>4, <2>2 DEF LinkCreate, NewLink, NoRequest
    <3>2. l.uri = request.loc /\ l.dl = request.dl /\ request.dl \in Downloads
        BY <3>1, LinkContext
    <3> HIDE DEF l
    <3>3. links'[t] = l /\ \A x \in Tokens \ {t} : links'[x] = links[x]
        BY <3>1, LinkContext
    <3>4. row[request.dl] \in {"local", "remote"}
        BY <2>2, <3>1, <3>2, LinkContext
    <3>5. stray \subseteq stray' /\ (Overtaken => t \in stray')
        BY <3>1
    <3>6. l.uri = "local" => HoldsLocal(l.dl) \/ t \in stray'
        BY <3>2, <3>4, <3>5 DEF Overtaken
    <3>7. Held(t)'
        BY <3>1, <3>2, <3>3, <3>4, <3>6 DEF stored
    <3>8. ASSUME NEW x \in Tokens \ {t} PROVE Held(x)'
        BY <3>1, <3>3, <3>5 DEF stored
    <3>9. \A x \in Tokens : Held(x)'
        BY <3>7, <3>8
    <3> HIDE DEF Held
    <3> QED BY <3>1, <3>9 DEF stored
  <2> QED BY <2>1, <2>2
<1>5. ASSUME NEW n \in Nodes, Crash(n) PROVE Kept'
  <2>1. /\ UNCHANGED <<row, disk, remote, cleaning, request, links>> /\ stray \subseteq stray'
        /\ moving' = [d \in Downloads |-> IF file[d].home = n THEN "no" ELSE moving[d]]
      BY <1>5 DEF Crash
  <2>2. \A d \in Downloads : moving'[d] = "no" \/ moving'[d] = moving[d]
      BY <2>1
  <2>3. ASSUME NEW t \in Tokens, links[t].uri = "local", links[t].dl \in Downloads,
               moving[links[t].dl] = "links", moving'[links[t].dl] # "links"
        PROVE  t \in stray'
    <3>1. file[links[t].dl].home = n /\ t \in LocalLinks(links[t].dl)
        BY <2>1, <2>3 DEF LocalLinks
    <3> QED BY <1>5, <2>3, <3>1 DEF Crash
  <2> QED BY <2>1, <2>2, <2>3, LinkContext
<1>6. ASSUME NEW n \in Nodes, Start(n) \/ SetRemoteProvider(n) PROVE Kept'
    BY <1>6 DEF Start, SetRemoteProvider, stored
<1>7. ASSUME NEW n \in Nodes, Reconcile(n) PROVE Kept'
    BY <1>7, LinkContext DEF Reconcile, nodes
<1> QED BY <1>1, <1>2, <1>3, <1>4, <1>5, <1>6, <1>7

\* Uploads take their files away only from stray links: any other valid link leads
\* to where the files are.
THEOREM LinksFollow == Spec => []LinksLead
<1>1. Init => Kept
    BY DEF Init, Kept, Stands, Held, Asking, NoLink
<1>2. ASSUME IInv, Kept, [Next]_vars PROVE Kept'
  <2>1. ASSUME UNCHANGED <<stored, request, links, stray>> PROVE Kept'
      BY <1>2, <2>1 DEF Kept, Stands, Held, HoldsLocal, Asking, stored
  <2>2. CASE UNCHANGED vars
      BY <2>1, <2>2 DEF vars
  <2>3. ASSUME NEW t \in Tokens, FetchStep(t) \/ \E h \in Header : Ask(t, h) PROVE Kept'
    <3>1. UNCHANGED <<stored, nodes, request, links, stray>>
        BY <2>3, Zenon DEF FetchStep, ResolveDownloadToken, ResolveFail, OpenLocal, fileSize,
                           ServeFile, CatFail, CatEnds, ServeFail, Ask
    <3> QED BY <2>1, <3>1
  <2> QED BY <1>2, <2>2, <2>3, DownloadStepKeepsLinks, LinksStepKeepsLinks, OtherStepKeepsLinks
          DEF Next
<1>3. IInv /\ Kept => LinksLead
  <2>1. SUFFICES ASSUME IInv, Kept, NEW t \in Tokens, links[t].live, t \notin stray
                 PROVE  Leads(links[t])
      BY DEF LinksLead
  <2>2. links[t] \in LinkRecord /\ links[t].dl \in Downloads
      BY <2>1, LinkContext DEF NoLink
  <2>3. row[links[t].dl] \in {"local", "remote"} /\ Stands(links[t].dl)
      BY <2>1, <2>2 DEF Kept, Held
  <2>4. CASE links[t].uri = "local"
      BY <2>1, <2>3, <2>4 DEF Kept, Held, HoldsLocal, Leads
  <2>5. CASE links[t].uri = "remote"
    <3>1. row[links[t].dl] = "remote"
        BY <2>1, <2>3, <2>5 DEF IInv, Outlived, Left
    <3> QED BY <2>3, <2>5, <3>1 DEF Stands, Leads
  <2> QED BY <2>2, <2>4, <2>5 DEF LinkRecord
<1> QED BY <1>1, <1>2, <1>3, Invariance, PTL DEF Spec
=============================================================================
