---------------------------- MODULE FileServing ----------------------------
(***************************************************************************)
(* Links to files and the fetches made of them: ListFiles and GenerateLink *)
(* (service/download.go), the file server of every node                    *)
(* (fileserver/server.go, storage/local.go) and the streaming of remote    *)
(* files with their ranges (storage/rclone.go).                            *)
(*                                                                         *)
(* A download has one file.  Downloads are completed, uploaded and deleted *)
(* meanwhile: Uploads and DownloadService have those steps in detail, here *)
(* there are the ones a reader of the files can notice.  The access count  *)
(* of a link, on which nothing depends, and the controller's death in the  *)
(* middle of a request are left out.                                       *)
(***************************************************************************)
EXTENDS Integers, FiniteSetsExt

CONSTANTS Downloads, Nodes,
          Tokens,      \* bound: links that are made
          Homes,       \* bound: nodes that downloads run on
          Sizes,       \* bound: sizes of files
          MaxPos,      \* bound: positions in Range headers
          ServeMode,   \* of the provider's configuration
          Faults       \* what may go wrong, out of AllFaults

\* A node dies; a call or statement fails; rclone fails.
AllFaults == {"crash", "call", "rclone"}
ASSUME FileServingAssumption ==
    /\ Homes \subseteq Nodes /\ Sizes \subseteq Nat /\ MaxPos \in Nat
    /\ "none" \notin Downloads
    /\ ServeMode \in {"url", "stream"} /\ Faults \subseteq AllFaults

VARIABLES
    file,       \* download -> its size and the node that has it
    row,        \* download -> what the jobs table says of it
    disk,       \* downloads with files on the node's disk
    remote,     \* downloads with files in remote storage
    moving,     \* download -> stage of its upload
    cleaning,   \* download -> files its deletion still has to remove
    up,         \* nodes that run
    provider,   \* nodes whose file server has its remote provider
    request,    \* the GenerateLink in progress
    links,      \* token -> its row in download_links
    fetch,      \* token -> the latest fetch of its link
    stray       \* history: links that an upload left behind

stored == <<file, row, disk, remote, moving, cleaning>>
nodes == <<up, provider>>
vars == <<stored, nodes, request, links, fetch, stray>>

\* What a Range header says: nothing, nonsense, "0-" and a number that is too long
\* for strconv.ParseInt, "a-", "a-b", "-b" or a list, of the first byte and the one
\* at b.
Header == [kind: {"none", "bad", "huge"}, a: {0}, b: {0}] \cup [kind: {"from"}, a: 0..MaxPos, b: {0}]
    \cup [kind: {"span"}, a: 0..MaxPos, b: 0..MaxPos]
    \cup [kind: {"last"}, a: {0}, b: 0..MaxPos] \cup [kind: {"list"}, a: {0}, b: 1..MaxPos]
NoRange == [kind |-> "none", a |-> 0, b |-> 0]
NoRequest == [dl |-> "none", at |-> "none", loc |-> "none"]
NoLink == [dl |-> "none", uri |-> "none", node |-> "none", live |-> FALSE]
Answer == [status: {200, 206, 403, 404, 416}, first: Nat, count: Nat, body: SUBSET Nat]
Pending == [status |-> 0, first |-> 0, count |-> 0, body |-> {}]
\* late: asked after the link's end; cut: rclone cat failed.
NoFetch == [at |-> "done", header |-> NoRange, uri |-> "none", late |-> TRUE, cut |-> FALSE,
            answer |-> Pending]

TypeOK ==
    /\ row \in [Downloads -> {"running", "local", "remote", "gone"}]
    /\ disk \cup remote \subseteq Downloads
    /\ moving \in [Downloads -> {"no", "record", "links", "clean"}]
    /\ cleaning \in [Downloads -> {"no", "local", "remote"}]
    /\ provider \subseteq up /\ up \subseteq Nodes /\ stray \subseteq Tokens
    /\ request = NoRequest \/ request \in
         [dl: Downloads, at: {"list", "make"}, loc: {"local", "remote"}]
    /\ \A t \in Tokens :
         /\ links[t] = NoLink \/ links[t] \in
              [dl: Downloads, uri: {"local", "remote"}, node: Nodes, live: BOOLEAN]
         /\ fetch[t].at \in {"resolve", "open", "cat", "done"} /\ fetch[t].header \in Header
         /\ fetch[t].answer.first \in Nat /\ fetch[t].answer.count \in Nat
         /\ fetch[t].at = "done" /\ fetch[t] # NoFetch => fetch[t].answer \in Answer

Init ==
    /\ file \in [Downloads -> [size: Sizes, home: Homes]]
    /\ row = [d \in Downloads |-> "running"]
    /\ disk = {} /\ remote = {}
    /\ moving = [d \in Downloads |-> "no"] /\ cleaning = [d \in Downloads |-> "no"]
    /\ up = Nodes /\ provider = Nodes
    /\ request = NoRequest
    /\ links = [t \in Tokens |-> NoLink] /\ fetch = [t \in Tokens |-> NoFetch]
    /\ stray = {}

-----------------------------------------------------------------------------
\* Downloads: completed, uploaded, deleted.

Complete(d) ==
    /\ row[d] = "running" /\ file[d].home \in up
    /\ row' = [row EXCEPT ![d] = "local"]
    /\ disk' = disk \cup {d}
    /\ UNCHANGED <<file, remote, moving, cleaning, nodes, request, links, fetch, stray>>

Upload(d) ==
    /\ row[d] = "local" /\ d \in disk /\ moving[d] = "no" /\ file[d].home \in up
    /\ remote' = remote \cup {d}
    /\ moving' = [moving EXCEPT ![d] = "record"]
    /\ UNCHANGED <<file, row, disk, cleaning, nodes, request, links, fetch, stray>>

Follow(d) == links' = [t \in Tokens |-> IF links[t].dl = d THEN [links[t] EXCEPT !.uri = "remote"]
                                                           ELSE links[t]]
LocalLinks(d) == {t \in Tokens : links[t].dl = d /\ links[t].uri = "local"}

\* CompleteUpload, which fails for a deleted job.  A worker whose report fails
\* removes its files all the same; the controller's own uploader gives up.
Record(d) ==
    /\ moving[d] = "record"
    /\ \/ /\ row[d] = "local"
          /\ row' = [row EXCEPT ![d] = "remote"] /\ moving' = [moving EXCEPT ![d] = "links"]
          /\ UNCHANGED stray
       \/ /\ row[d] # "local" \/ "call" \in Faults
          /\ UNCHANGED row
          /\ \/ moving' = [moving EXCEPT ![d] = "no"] /\ UNCHANGED stray
             \/ moving' = [moving EXCEPT ![d] = "clean"] /\ stray' = stray \cup LocalLinks(d)
    /\ UNCHANGED <<file, disk, remote, cleaning, nodes, request, links, fetch>>

\* Bug: links go on leading to the files that are about to be removed.
RewriteNothing(d) ==
    /\ moving[d] = "links"
    /\ moving' = [moving EXCEPT ![d] = "clean"]
    /\ UNCHANGED <<file, row, disk, remote, cleaning, nodes, request, links, fetch, stray>>

\* UpdateDownloadLinksStorageURI, whose failure is logged and holds nothing up.
RewriteLinks(d) ==
    /\ moving[d] = "links"
    /\ moving' = [moving EXCEPT ![d] = "clean"]
    /\ \/ Follow(d) /\ UNCHANGED stray
       \/ /\ "call" \in Faults
          /\ stray' = stray \cup LocalLinks(d) /\ UNCHANGED links
    /\ UNCHANGED <<file, row, disk, remote, cleaning, nodes, request, fetch>>

UploadClean(d) ==
    /\ moving[d] = "clean"
    /\ disk' = disk \ {d}
    /\ moving' = [moving EXCEPT ![d] = "no"]
    /\ UNCHANGED <<file, row, remote, cleaning, nodes, request, links, fetch, stray>>

Ended(l) == [l EXCEPT !.live = FALSE]

\* The rows go, links with them, and the files the row led to after them.
Delete(d) ==
    /\ row[d] \in {"local", "remote"}
    /\ cleaning' = [cleaning EXCEPT ![d] = row[d]]
    /\ row' = [row EXCEPT ![d] = "gone"]
    /\ links' = [t \in Tokens |-> IF links[t].dl = d THEN Ended(links[t]) ELSE links[t]]
    /\ UNCHANGED <<file, disk, remote, moving, nodes, request, fetch, stray>>

RemoveFiles(d) ==
    /\ cleaning[d] # "no"
    /\ cleaning' = [cleaning EXCEPT ![d] = "no"]
    /\ disk' = IF cleaning[d] = "local" /\ file[d].home \in up THEN disk \ {d} ELSE disk
    /\ remote' = IF cleaning[d] = "remote" THEN remote \ {d} ELSE remote
    /\ UNCHANGED <<file, row, moving, nodes, request, links, fetch, stray>>

-----------------------------------------------------------------------------
\* Nodes die, with the fetches and uploads they serve.  A node that starts
\* opens its port first and has a provider only once it has registered.

Crash(n) ==
    /\ "crash" \in Faults /\ n \in up
    /\ up' = up \ {n} /\ provider' = provider \ {n}
    /\ moving' = [d \in Downloads |-> IF file[d].home = n THEN "no" ELSE moving[d]]
    /\ fetch' = [t \in Tokens |-> IF links[t].node = n THEN NoFetch ELSE fetch[t]]
    /\ stray' = stray \cup UNION {LocalLinks(d) : d \in
                   {d \in Downloads : file[d].home = n /\ moving[d] = "links"}}
    /\ UNCHANGED <<file, row, disk, remote, cleaning, request, links>>

Start(n) ==
    /\ n \notin up
    /\ up' = up \cup {n}
    /\ UNCHANGED <<stored, provider, request, links, fetch, stray>>

SetRemoteProvider(n) ==
    /\ n \in up \ provider
    /\ provider' = provider \cup {n}
    /\ UNCHANGED <<stored, up, request, links, fetch, stray>>

\* A node that has registered, or connected again, removes the directories that
\* none of its jobs claims.
Reconcile(n) ==
    /\ n \in provider
    /\ disk' = {d \in disk : file[d].home = n => row[d] = "local"}
    /\ UNCHANGED <<file, row, remote, moving, cleaning, nodes, request, links, fetch, stray>>

-----------------------------------------------------------------------------
\* GenerateLink.

\* The rows there are; only of completed downloads a link is made.
GetDownloadWithJobByUser(d) == {row[d]} \ {"gone"}
LinkRow(d) ==
    /\ request = NoRequest
    /\ \E t \in Tokens : links[t] = NoLink   \* bound
    /\ \E r \in GetDownloadWithJobByUser(d) \ {"running"} :
         request' = [dl |-> d, at |-> "list", loc |-> r]
    /\ UNCHANGED <<stored, nodes, links, fetch, stray>>

\* What the node finds on its disk, if it answers, or rclone in remote storage.
ScanFiles(n) == {d \in disk : file[d].home = n}
GetJobFiles(n) == IF n \in up THEN ScanFiles(n) ELSE {}
RemoteFiles == remote
ListFiles == IF request.loc = "remote" THEN RemoteFiles
             ELSE GetJobFiles(file[request.dl].home)

LinkList ==
    /\ request.at = "list"
    /\ \/ request.dl \in ListFiles /\ request' = [request EXCEPT !.at = "make"]
       \/ (request.dl \notin ListFiles \/ "call" \in Faults) /\ request' = NoRequest
    /\ UNCHANGED <<stored, nodes, links, fetch, stray>>

\* rclone link: a URL of the storage's own, and no row.
GenerateURL ==
    /\ request.at = "make" /\ request.loc = "remote" /\ ServeMode = "url"
    /\ request' = NoRequest
    /\ UNCHANGED <<stored, nodes, links, fetch, stray>>

\* Any node streams a remote file; the node of the row serves a local one.
Servers == IF request.loc = "remote" THEN Nodes ELSE {file[request.dl].home}
Streams == ServeMode = "url" => request.loc = "local" \/ "rclone" \in Faults

\* Between the list and the insert an upload got past the links of the download.
Overtaken == /\ request.loc = "local"
             /\ \/ row[request.dl] = "remote" /\ moving[request.dl] # "links"
                \/ row[request.dl] = "local" /\ (moving[request.dl] = "clean" \/ request.dl \notin disk)

NewLink(t, n) ==
    /\ links' = [links EXCEPT ![t] =
         [dl |-> request.dl, uri |-> request.loc, node |-> n, live |-> TRUE]]
    /\ stray' = IF Overtaken THEN stray \cup {t} ELSE stray

\* Bug: the insert does not look for the download.
LinkCreateAnyway(t, n) ==
    /\ request.at = "make" /\ Streams /\ n \in Servers /\ links[t] = NoLink
    /\ NewLink(t, n)
    /\ request' = NoRequest
    /\ UNCHANGED <<stored, nodes, fetch>>

\* CreateDownloadLink, which the foreign key fails if the download is gone.
LinkCreate(t, n) ==
    /\ request.at = "make" /\ Streams /\ n \in Servers /\ links[t] = NoLink
    /\ IF row[request.dl] = "gone" THEN UNCHANGED <<links, stray>> ELSE NewLink(t, n)
    /\ request' = NoRequest
    /\ UNCHANGED <<stored, nodes, fetch>>

\* No node is online, or a statement fails.
LinkFail ==
    /\ request.at = "make" /\ "call" \in Faults
    /\ request' = NoRequest
    /\ UNCHANGED <<stored, nodes, links, fetch, stray>>

\* expires_at has passed.
Expire(t) ==
    /\ links[t].live
    /\ links' = [links EXCEPT ![t] = Ended(@)]
    /\ UNCHANGED <<stored, nodes, request, fetch, stray>>

-----------------------------------------------------------------------------
\* A fetch, by a client that has the URL.

Size(t) == file[links[t].dl].size
End(t, answer, cut) ==
    fetch' = [fetch EXCEPT ![t] =
        [@ EXCEPT !.at = "done", !.uri = "none", !.cut = cut, !.answer = answer]]
Reply(t, status, count, body) ==
    End(t, [status |-> status, first |-> 0, count |-> count, body |-> body], FALSE)
\* Nothing is remembered of a client that got nothing, but for what it was told.
Refuse(t, status) ==
    fetch' = [fetch EXCEPT ![t] = [NoFetch EXCEPT !.answer = [Pending EXCEPT !.status = status]]]

Ask(t, h) ==
    /\ links[t] # NoLink /\ fetch[t].at = "done" /\ links[t].node \in up
    /\ fetch' = [fetch EXCEPT ![t] =
         [NoFetch EXCEPT !.at = "resolve", !.header = h,
                         !.late = ~links[t].live \/ row[links[t].dl] = "gone"]]
    /\ UNCHANGED <<stored, nodes, request, links, stray>>

\* GetDownloadLinkByToken, by the controller for a worker.
ResolveDownloadToken(t) ==
    /\ fetch[t].at = "resolve"
    /\ IF links[t].live
       THEN fetch' = [fetch EXCEPT ![t].at = "open", ![t].uri = links[t].uri]
       ELSE Refuse(t, 403)
    /\ UNCHANGED <<stored, nodes, request, links, stray>>

\* A worker whose call fails answers as if the link were invalid.
ResolveFail(t) ==
    /\ fetch[t].at = "resolve" /\ "call" \in Faults
    /\ Refuse(t, 403)
    /\ UNCHANGED <<stored, nodes, request, links, stray>>

Streamed(t) == fetch[t].uri = "remote" /\ links[t].node \in provider

\* The positions a header asks for, of those there are.
Asked(h, size) ==
    {p \in 0..(size - 1) : \/ h.kind \in {"none", "huge"}
                           \/ h.kind = "from" /\ p >= h.a
                           \/ h.kind = "span" /\ p >= h.a /\ p <= h.b
                           \/ h.kind = "last" /\ p >= size - h.b
                           \/ h.kind = "list" /\ (p = 0 \/ p = h.b)}

\* http.ServeContent: several ranges come in one answer, or the whole file does;
\* nothing comes of an empty file or suffix.
ServeContent(t) ==
    LET h == fetch[t].header
        body == Asked(h, Size(t))
        Ranges == h.kind \notin {"none", "bad", "huge"}
    IN \/ h.kind = "none" /\ Reply(t, 200, Size(t), body)
       \/ h.kind # "none" /\ (~Ranges \/ body = {}) /\ Reply(t, 416, 0, {})
       \/ Ranges /\ (body # {} \/ h.kind = "last") /\ Reply(t, 206, Cardinality(body), body)
       \/ Ranges /\ (Size(t) = 0 \/ h.kind = "list") /\ Reply(t, 200, Size(t), 0..(Size(t) - 1))

\* From the disk, also when a remote link comes before the provider does: then
\* there is no such path.
Opens(t) == fetch[t].uri = "local" /\ links[t].dl \in ScanFiles(links[t].node)
OpenLocal(t) ==
    /\ fetch[t].at = "open" /\ ~Streamed(t)
    /\ IF Opens(t)
       THEN ServeContent(t) ELSE Refuse(t, 404)
    /\ UNCHANGED <<stored, nodes, request, links, stray>>

\* A list of ranges is not known here.
Accepted(h, size) ==
    \/ h.kind = "last" /\ h.b > 0
    \/ h.kind \in {"from", "span"} /\ h.a < size /\ (h.kind = "span" => h.a <= h.b)

\* Bug: a range that ends beyond the file is taken as it is.
ParseUnclamped(h, size) ==
    [ok |-> Accepted(h, size),
     first |-> IF h.kind = "last" THEN Max({size - h.b, 0}) ELSE h.a,
     last |-> IF h.kind = "span" THEN h.b ELSE size - 1]

\* Bug: a suffix longer than the file starts before it.
ParseNegative(h, size) ==
    [ok |-> Accepted(h, size),
     first |-> IF h.kind = "last" THEN size - h.b ELSE h.a,
     last |-> IF h.kind = "span" THEN Min({h.b, size - 1}) ELSE size - 1]

\* An empty file has a last byte -1: "-b" is in order there, and of length 0.
parseRangeHeader(h, size) ==
    [ok |-> Accepted(h, size),
     first |-> IF h.kind = "last" THEN Max({size - h.b, 0}) ELSE h.a,
     last |-> IF h.kind = "span" THEN Min({h.b, size - 1}) ELSE size - 1]

\* The headers of an answer whose bytes are still to come.
Announce(t, status, first, count) ==
    fetch' = [fetch EXCEPT ![t] = [@ EXCEPT !.at = "cat",
                !.answer = [status |-> status, first |-> first, count |-> count, body |-> {}]]]

\* rclone size, and what it makes of the header ...
fileSize(t) ==
    /\ fetch[t].at = "open" /\ Streamed(t)
    /\ LET h == fetch[t].header
           range == parseRangeHeader(h, Size(t))
       IN IF links[t].dl \notin remote THEN Refuse(t, 404)
          ELSE IF h.kind = "none" THEN Announce(t, 200, 0, Size(t))
          ELSE IF ~range.ok THEN Reply(t, 416, 0, {})
          ELSE Announce(t, 206, range.first, range.last - range.first + 1)
    /\ UNCHANGED <<stored, nodes, request, links, stray>>

\* ... and rclone cat, after the headers are sent.  What is sent starts where it
\* should, and ends early if rclone or the file does: that is only logged.
Cat(t) == {p \in 0..(Size(t) - 1) : /\ p >= fetch[t].answer.first
                                    /\ p < fetch[t].answer.first + fetch[t].answer.count}
CatEnds(t, cut) ==
    /\ fetch[t].at = "cat"
    /\ \E limit \in 0..Size(t) :
         /\ limit = Size(t) \/ cut \/ links[t].dl \notin remote
         /\ End(t, [fetch[t].answer EXCEPT !.first = 0, !.body = {p \in Cat(t) : p < limit}], cut)
    /\ UNCHANGED <<stored, nodes, request, links, stray>>
ServeFile(t) == CatEnds(t, FALSE)
CatFail(t) == "rclone" \in Faults /\ CatEnds(t, TRUE)

\* rclone size fails, or rclone cat does not start.
ServeFail(t) ==
    /\ fetch[t].at \in {"open", "cat"} /\ Streamed(t) /\ "rclone" \in Faults
    /\ Refuse(t, 404)
    /\ UNCHANGED <<stored, nodes, request, links, stray>>

-----------------------------------------------------------------------------
FetchStep(t) == \/ ResolveDownloadToken(t) \/ ResolveFail(t) \/ OpenLocal(t)
                \/ fileSize(t) \/ ServeFile(t) \/ CatFail(t) \/ ServeFail(t)

Next ==
    \/ \E d \in Downloads :
         \/ Complete(d) \/ Upload(d) \/ Record(d) \/ RewriteLinks(d) \/ UploadClean(d)
         \/ Delete(d) \/ RemoveFiles(d) \/ LinkRow(d)
    \/ \E n \in Nodes : Crash(n) \/ Start(n) \/ SetRemoteProvider(n) \/ Reconcile(n)
    \/ LinkList \/ GenerateURL \/ LinkFail
    \/ \E t \in Tokens :
         \/ \E n \in Nodes : LinkCreate(t, n)
         \/ Expire(t) \/ FetchStep(t)
         \/ \E h \in Header : Ask(t, h)

Spec == Init /\ [][Next]_vars

\* Nodes come up again, uploads get to their links, a client keeps asking for the
\* whole file, and calls and rclone do not fail every time.
Whole(t) == fetch[t].header = NoRange
Fairness ==
    /\ \A n \in Nodes : WF_vars(Start(n) \/ SetRemoteProvider(n))
    /\ \A d \in Downloads : WF_vars(RewriteLinks(d))
    /\ \A t \in Tokens :
         /\ WF_vars(FetchStep(t)) /\ SF_vars(Ask(t, NoRange))
         /\ SF_vars(Whole(t) /\ ResolveDownloadToken(t))
         /\ SF_vars(Whole(t) /\ fileSize(t)) /\ SF_vars(Whole(t) /\ ServeFile(t))
FairSpec == Spec /\ Fairness

-----------------------------------------------------------------------------
(***************************************************************************)
(* Properties.                                                             *)
(***************************************************************************)
Done(t) == fetch[t] # NoFetch /\ fetch[t].at = "done"
Sent(t) == Done(t) /\ fetch[t].answer.status \in {200, 206}

\* A client is told how many bytes come, as many as it asked for or as the whole
\* file has, and gets those bytes or the first few of them, so that it sees what
\* is missing; something is missing only when rclone failed or the file went
\* after the headers were sent (rclone.go:169, "Range support").  A range is
\* refused only if the file has nothing of it, or the header is a list or too long
\* to be read.
WantedOf(status, h, size) == IF status = 200 THEN 0..(size - 1) ELSE Asked(h, size)
Wanted(t) == WantedOf(fetch[t].answer.status, fetch[t].header, Size(t))
FromTheStart(body, wanted) ==
    /\ body \subseteq wanted
    /\ \A p \in wanted, q \in body : p < q => p \in body
BytesAsAsked ==
    \A t \in Tokens : Done(t) =>
      LET h == fetch[t].header
          answer == fetch[t].answer
      IN /\ Sent(t) => /\ answer.count = Cardinality(Wanted(t))
                       /\ FromTheStart(answer.body, Wanted(t))
                       /\ answer.body = Wanted(t) \/ fetch[t].cut \/ links[t].dl \notin remote
         /\ answer.status = 416 =>
              Asked(h, Size(t)) = {} \/ h.kind \in {"list", "huge"}

\* A link says nothing to those who come after its end or the deletion of its
\* download, though the files are still there for a while and a link may have
\* been in the making (download_links has an expiry and a cascading foreign key).
EndedServesNothing == \A t \in Tokens : Sent(t) => ~fetch[t].late

\* A valid link leads to where the files are, whoever moves them meanwhile, and
\* uploads take their files away only from links that the record or the rewriting
\* failed for, or that were inserted after it: a node that reconciles its
\* directories finds those of a recorded upload first, but the rewriting follows.
Leads(l) == \/ l.uri = "local" /\ (l.dl \in disk \/ moving[l.dl] = "links")
            \/ l.uri = "remote" /\ l.dl \in remote
LinksLead == \A t \in Tokens : links[t].live => Leads(links[t]) \/ t \in stray

\* A link that stays valid gives the whole file, again and again, to those who try
\* again: uploads move the files under it, nodes and rclone fail and come back,
\* and it follows, unless an upload left it behind.
Served(t) == Sent(t) /\ fetch[t].answer.status = 200 /\ fetch[t].answer.body = Wanted(t)
CrashesEnd == <>[][\A n \in Nodes : ~Crash(n)]_vars
LinksServe == CrashesEnd => \A t \in Tokens : []<>(~links[t].live \/ Served(t) \/ t \in stray)
=============================================================================
