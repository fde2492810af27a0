------------------------------ MODULE Methods -------------------------------
(***************************************************************************)
(* From the file a target was translated to, to the reply: check_index(),  *)
(* compute_response(), the five methods, load_file(), autoindex() and      *)
(* compose_response(), against a file system that other processes write to *)
(* as well.  A request takes two steps of the server: stat(), which        *)
(* translate_target() calls, and what is done later with what it said; a   *)
(* PUT, which calls stat() once more before it opens the file, takes three.*)
(***************************************************************************)
EXTENDS Naturals, Sequences

CONSTANTS
  Content,     \* what a file or a body can hold
  Empty,       \* the empty content
  Part,        \* what is left of a body that was not written whole
  Bad,         \* a form whose escapes std::stoi() does not take
  Null,        \* a NULL method, no request
  Requests,    \* the requests clients send, see Request
  Locations,   \* the locations they are judged by, see Location
  Others,      \* what other processes write to files
  Disks        \* the file systems there are at the beginning

\* The paths that matter to one target: the file it is translated to; in the
\* directory of that name the index file; the name of the directory and that
\* of the index file run together; the target itself, which is also a path;
\* and the first three below the upload directory.
Named == {"named", "index", "glued"}
InUpload == [named |-> "up_named", index |-> "up_index", glued |-> "up_glued"]
Path == Named \cup {"target"} \cup {InUpload[t] : t \in Named}

\* What is at a path: nothing, a directory without entries or with some, or a
\* file's content.
DirNode == {"empty", "dir"}
Node == {"none"} \cup DirNode \cup Content
Kind(node) == IF node \in Content THEN "reg" ELSE IF node = "none" THEN "none" ELSE "dir"

\* An index file is in a directory, which then has entries.
Disk == {d \in [Path -> Node] :
           /\ d["index"] \in {"none"} \cup Content
           /\ d["index"] # "none" => d["named"] = "dir"}

\* chunked: the content came in chunks, which the parser puts into the body
\* of the response; slash: the target ends with `/'; host: a host header.
Request == [method : {"GET", "HEAD", "POST", "PUT", "DELETE"}, content : Content,
            chunked : BOOLEAN, slash : BOOLEAN, host : BOOLEAN]

\* kind: which of the branches of compute_response() applies.
Location == [kind : {"plain", "forbidden", "cgi", "redirection"},
             autoindex : BOOLEAN, index : BOOLEAN, upload : BOOLEAN]

\* A form with an escape is not an empty one.
ASSUME MethodAssumption ==
  /\ Content \cap ({"none"} \cup DirNode) = {}
  /\ Empty \in Content /\ Part \in Content /\ Bad \in Content \ {Empty}
  /\ Requests \subseteq Request /\ Locations \subseteq Location
  /\ Disks \subseteq Disk /\ Others \subseteq Content
  /\ Null \notin Request \cup {"GET", "HEAD", "POST", "PUT", "DELETE"}

OK == 200
CREATED == 201
NO_CONTENT == 204
MOVED_PERMANENTLY == 301
BAD_REQUEST == 400
FORBIDDEN == 403
NOT_FOUND == 404
METHOD_NOT_ALLOWED == 405
NOT_IMPLEMENTED == 501
BAD_GATEWAY == 502
EXIT_FAILURE == 1

\* The pages Server() sets; of the statuses above these have one.
ErrorPages == {400, 403, 404, 405, 410, 413, 500}

VARIABLES
  loc,       \* the location
  disk,      \* the file system
  closed,    \* paths the server may not open or remove
  rq,        \* the request
  file,      \* _request.file
  info,      \* _request.file_info.st_mode
  reply,     \* the last reply: status, and the parts of its body
  stage      \* "idle", "translated", "changed" since by another process;
             \* "stated" again for a PUT, "raced" since by another process;
             \* "forked", "terminated" by an exception

methodVars == <<loc, disk, closed, rq, file, info, reply, stage>>

NothingSent == [status |-> OK, body |-> <<>>]

\* A path that ends with `/' names a directory or nothing: that of a target
\* with `/', and the target to which check_index() has added one.
Slashed(r, f) ==
  (IF r.slash THEN {"named", "up_named", "target"} ELSE {})
  \cup (IF f = "named" THEN {} ELSE {"target"})
Seen(r, f, path) ==
  IF path \in Slashed(r, f) /\ disk[path] \in Content THEN "none" ELSE disk[path]
At(path) == Seen(rq, file, path)

\* stat(): if it fails the structure keeps what it held.
Stat(node, old) == IF node = "none" THEN old ELSE Kind(node)

\* Chunks go to the response.  Mutation: to the request, as other content.
RequestBodyAlways == rq.content
RequestBody == IF rq.chunked THEN Empty ELSE rq.content

\* The body of the response before it is computed: what the parser put there.
Chunked(r) == IF r.chunked THEN <<"chunks">> ELSE <<>>

\* load_file(): overwrites the body, or leaves it and fails.
\* Mutation: the file is appended.
Readable(path) == At(path) \in Content /\ path \notin closed
LoadAppends(path, body) ==
  IF Readable(path) THEN Append(body, disk[path]) ELSE body
Load(path, body) ==
  IF ~Readable(path) THEN body
  ELSE IF disk[path] = Empty THEN <<>> ELSE <<disk[path]>>

\* compose_response(): a reply of an error has that error's page, if there is
\* one, except to HEAD.  Mutation: to HEAD too.
ComposeAlways(method, status, body) ==
  [status |-> status,
   body |-> IF status \in 300 .. 511 \cap ErrorPages /\ method # Null
            THEN <<"page">> ELSE body]
Compose(method, status, body) ==
  [status |-> status,
   body |-> IF status \in 300 .. 511 \cap ErrorPages /\ method \notin {Null, "HEAD"}
            THEN <<"page">> ELSE body]

\* send_response() clears the request and the response; what was sent stays in
\* reply until the next request.
Send(status, body) ==
  /\ reply' = Compose(rq.method, status, body)
  /\ rq' = Null
  /\ file' = "named"
  /\ info' = "none"
  /\ stage' = "idle"

Terminate == stage' = "terminated" /\ UNCHANGED <<rq, file, info, reply>>

-----------------------------------------------------------------------------
(* recv_request() *)

\* A request that the parser rejects, before or after its method is known:
\* with status 1 if the target does not begin with `/' (StartLine).
Reject(r) ==
  /\ stage = "idle"
  /\ \/ \E status \in {BAD_REQUEST, NOT_IMPLEMENTED} :
          reply' = Compose(Null, status, <<>>)
     \/ \E status \in {BAD_REQUEST, EXIT_FAILURE} :
          reply' = Compose(r.method, status, <<>>)
  /\ UNCHANGED <<loc, disk, closed, rq, file, info, stage>>

\* translate_target() and check_index(): if the file is a directory that has
\* the location's index file, the name of that file is appended to the name of
\* the directory, which may lack its `/'.  The second stat() may fail.
Indexed(r) == IF r.slash THEN "index" ELSE "glued"

TranslateTarget(r) ==
  LET found == Kind(Seen(r, "named", "named"))
      path == IF found = "dir" /\ loc.index /\ disk["index"] # "none"
              THEN Indexed(r) ELSE "named"
  IN
  /\ stage = "idle"
  /\ rq' = r
  /\ file' = path
  /\ info' = Stat(Seen(r, path, path), found)
  /\ reply' = NothingSent
  /\ stage' = "translated"
  /\ UNCHANGED <<loc, disk, closed>>

-----------------------------------------------------------------------------
(* The methods *)

\* opendir() of what is no directory fails.
Opens(path) == disk[path] \in DirNode /\ path \notin closed

\* Mutation: the flag is not asked for.
HeadStatusUnlisted ==
  IF info # "none" THEN OK ELSE NOT_FOUND
HeadStatus ==
  IF info = "dir" THEN (IF loc.autoindex THEN OK ELSE FORBIDDEN)
  ELSE IF info = "reg" THEN OK ELSE NOT_FOUND

\* Mutation: that the file could not be read is not looked at.
GetStatusUnread ==
  IF info = "reg" THEN OK
  ELSE IF info = "dir" THEN (IF loc.autoindex /\ Opens(file) THEN OK ELSE FORBIDDEN)
  ELSE NOT_FOUND
GetStatus ==
  IF info = "dir"
  THEN IF ~loc.autoindex THEN FORBIDDEN ELSE IF Opens(file) THEN OK ELSE NOT_FOUND
  ELSE IF info = "reg" THEN (IF Readable(file) THEN OK ELSE FORBIDDEN)
  ELSE NOT_FOUND

HttpHead == Send(HeadStatus, Chunked(rq)) /\ UNCHANGED disk

\* autoindex() asks for the header host once per entry: without it
\* std::out_of_range, which nothing catches, ends the program.
Listed == info = "dir" /\ loc.autoindex /\ Opens(file)

HttpGet ==
  /\ \/ /\ Listed /\ disk[file] = "dir" /\ ~rq.host
        /\ Terminate
     \/ /\ ~(Listed /\ disk[file] = "dir" /\ ~rq.host)
        /\ Send(GetStatus,
                IF Listed THEN Append(Chunked(rq), "listing")
                ELSE IF info = "reg" THEN Load(file, Chunked(rq)) ELSE Chunked(rq))
  /\ UNCHANGED disk

\* generate_html() decodes the body of the request.
HttpPost ==
  /\ \/ /\ RequestBody = Bad
        /\ Terminate
     \/ /\ RequestBody # Bad
        /\ Send(OK, Append(Chunked(rq), "form"))
  /\ UNCHANGED disk

\* http_put(): the upload directory is put before the file, and stat() called
\* again: where it fails the mode is that of the file without the prefix.
Uploaded == IF loc.upload THEN InUpload[file] ELSE file

StatUpload ==
  /\ info' = Stat(At(Uploaded), info)
  /\ stage' = "stated"
  /\ UNCHANGED <<disk, rq, file, reply>>

\* ofstream::open() with trunc creates the file or empties it.
Writable(path) ==
  disk[path] \notin DirNode /\ path \notin Slashed(rq, file) \cup closed

\* The write may fail, at once or on the way, and is not checked.
Written(body) == IF body = Empty THEN {Empty} ELSE {body, Part, Empty}

PutStatus ==
  IF RequestBody = Empty THEN NO_CONTENT
  ELSE IF ~Writable(Uploaded) THEN FORBIDDEN
  ELSE IF info # "none" THEN OK ELSE CREATED

HttpPut ==
  /\ stage \in {"stated", "raced"}
  /\ IF Writable(Uploaded)
     THEN \E left \in Written(RequestBody) : disk' = [disk EXCEPT ![Uploaded] = left]
     ELSE disk' = disk
  /\ Send(PutStatus, Chunked(rq))
  /\ UNCHANGED <<loc, closed>>

\* remove() of the target, as a path, and not of the file: it removes a file
\* or a directory without entries.
Removes(path) == At(path) \in Content \cup {"empty"} /\ path \notin closed
DeleteStatus ==
  IF info = "reg" THEN (IF Removes("target") THEN OK ELSE FORBIDDEN)
  ELSE IF info = "dir" THEN FORBIDDEN ELSE NOT_FOUND

\* Mutation: remove() comes before the mode is looked at.
HttpDeleteFirst ==
  /\ disk' = IF Removes("target") THEN [disk EXCEPT !["target"] = "none"] ELSE disk
  /\ Send(DeleteStatus, Chunked(rq))
HttpDelete ==
  /\ disk' = IF info = "reg" /\ Removes("target")
             THEN [disk EXCEPT !["target"] = "none"] ELSE disk
  /\ Send(DeleteStatus, IF DeleteStatus = OK THEN Append(Chunked(rq), "deleted")
                        ELSE Chunked(rq))

Method ==
  \/ rq.method = "HEAD" /\ HttpHead
  \/ rq.method = "GET" /\ HttpGet
  \/ rq.method = "POST" /\ HttpPost
  \/ rq.method = "PUT" /\ StatUpload
  \/ rq.method = "DELETE" /\ HttpDelete

-----------------------------------------------------------------------------
\* CGI::execute(): the program may not be executable (502), the file not be
\* opened (404), or pipe() or fork() fail, which sets no status: 0 is sent.
\* open() for reading takes a directory.
Execute ==
  \/ Send(BAD_GATEWAY, Chunked(rq))
  \/ /\ At(file) = "none" \/ file \in closed
     /\ Send(NOT_FOUND, Chunked(rq))
  \/ /\ At(file) # "none"
     /\ file \notin closed
     /\ \/ Send(0, Chunked(rq))
        \/ stage' = "forked" /\ UNCHANGED <<rq, file, info, reply>>

\* compute_response()
ComputeResponse ==
  /\ stage \in {"translated", "changed"}
  /\ \/ /\ loc.kind = "forbidden"
        /\ Send(METHOD_NOT_ALLOWED, Chunked(rq))
        /\ UNCHANGED disk
     \/ loc.kind = "cgi" /\ Execute /\ UNCHANGED disk
     \/ /\ loc.kind = "redirection"
        /\ Send(MOVED_PERMANENTLY, Chunked(rq))
        /\ UNCHANGED disk
     \/ loc.kind = "plain" /\ Method
  /\ UNCHANGED <<loc, closed>>

\* Another process creates, rewrites or removes a file (bound: one of them,
\* once between two steps of the server for a request).
External ==
  /\ stage \in {"translated", "stated"}
  /\ \E p \in Path, node \in {"none"} \cup Others :
       /\ disk[p] \notin DirNode
       /\ disk' = [disk EXCEPT ![p] = node]
       /\ disk' \in Disk
  /\ stage' = IF stage = "translated" THEN "changed" ELSE "raced"
  /\ UNCHANGED <<loc, closed, rq, file, info, reply>>

MethodInit ==
  /\ loc \in Locations
  /\ disk \in Disks
  /\ closed \in {{}, Path, Path \ (Named \cup {"target"})}
  /\ rq = Null
  /\ file = "named"
  /\ info = "none"
  /\ reply = NothingSent
  /\ stage = "idle"

MethodNext ==
  \/ \E r \in Requests : Reject(r) \/ TranslateTarget(r)
  \/ ComputeResponse
  \/ HttpPut
  \/ External

MethodSpec == MethodInit /\ [][MethodNext]_methodVars

-----------------------------------------------------------------------------
(* Properties *)

Bodies(alone, appended) ==
  {<<>>, <<"chunks">>} \cup {<<p>> : p \in alone \cup appended}
  \cup {<<"chunks", p>> : p \in appended}

\* Every variable has its type: a page or a file replaces what was in the
\* body of the response, what is generated is appended.
MethodTypeOK ==
  /\ loc \in Location
  /\ disk \in Disk
  /\ closed \subseteq Path
  /\ rq \in Request \cup {Null}
  /\ file \in Named
  /\ info \in {"none", "dir", "reg"}
  /\ reply.status \in Nat
  /\ reply.body \in Bodies({"page"} \cup (Content \ {Empty}), {"listing", "form", "deleted"})
  /\ stage \in {"idle", "translated", "changed", "stated", "raced", "forked", "terminated"}

\* The steps in which a request is answered, and a method performed.
Answered ==
  stage \in {"translated", "changed", "stated", "raced"} /\ stage' = "idle"
Answers(method) == Answered /\ loc.kind = "plain" /\ rq.method = method

\* What is refused is not done: a reply with an error status leaves the file
\* system alone, though open() with trunc and remove() come before the status
\* (HTTP_methods.cpp:64-121).
RefusedChangesNothing ==
  [][Answered /\ reply'.status >= 400
       => disk' = disk]_methodVars

\* What a PUT is refused for is not even opened; what it is not refused for is
\* stored where the upload directory says and nowhere else, an empty file if it
\* has no content or has it in chunks.  200, 201 and 204 do not tell that it
\* is stored whole: the write is not checked (HTTP_methods.cpp:69-96).
PutStored ==
  [][Answers("PUT") =>
       \/ /\ \E left \in Written(RequestBody) : disk' = [disk EXCEPT ![Uploaded] = left]
          /\ reply'.status \in IF RequestBody = Empty THEN {NO_CONTENT} ELSE {OK, CREATED}
       \/ /\ disk' = disk
          /\ reply'.status = IF RequestBody = Empty THEN NO_CONTENT ELSE FORBIDDEN]_methodVars

\* 201 is said of a file there was not when stat() was called: another process
\* may have made it since, and loses what it wrote.  200 is said of one there
\* was, or whose name without the upload directory was when the target was
\* translated: stat() fails and leaves that mode (HTTP_methods.cpp:71-88).
CreatedIsNew ==
  [][/\ stage' = "stated" =>
          (info' = "none" <=> At(Uploaded) = "none" /\ info = "none")
     /\ Answers("PUT") /\ reply'.status = CREATED => disk[Uploaded] = "none" \/ stage = "raced"
     /\ Answers("PUT") /\ reply'.status = OK => info # "none"]_methodVars

\* What is served for a file is the file as it is when it is read, and nothing
\* else (file.cpp:32-53).
ServedIsFile ==
  [][Answers("GET") /\ reply'.status = OK /\ info = "reg" =>
       reply'.body = IF disk[file] = Empty THEN <<>> ELSE <<disk[file]>>]_methodVars

\* HEAD is answered with the status of GET, unless the file can not be read,
\* was changed since stat(), or is not the directory that stat() saw
\* (HTTP_methods.cpp:8-50).
HeadTellsGet ==
  /\ MethodTypeOK
  /\ stage \in {"translated", "changed"} /\ file \notin closed /\ Kind(At(file)) = info
       => HeadStatus = GetStatus

\* Nothing follows the header of a reply to HEAD or of a 204, unless the
\* request's content came in chunks, which the parser puts into the body of
\* the response (HTTP_parse.cpp:254, HTTP_response.cpp:37-48).
BodilessReplies ==
  [][Answered /\ ~rq.chunked /\ (rq.method = "HEAD" \/ reply'.status = NO_CONTENT)
       => reply'.body = <<>>]_methodVars

\* What a reply says was done, and nothing else: what is refused is not done,
\* what is stored is stored where it should be, 201 is said of what stat() did
\* not find, a file is served as it is, and to HEAD, or with 204, nothing is
\* sent behind the header
\* (HTTP_methods.cpp:52-121, file.cpp:32-53).
RepliesAsDone ==
  RefusedChangesNothing /\ PutStored /\ CreatedIsNew /\ ServedIsFile /\ BodilessReplies

\* DELETE is answered as the page it sends says.  HTTP_methods.cpp:111,
\* "File deleted.": the file is no longer there.
DeletedMeansGone ==
  [][Answers("DELETE") /\ reply'.status = OK => disk'[file] = "none"]_methodVars

\* The server goes on unless a directory with entries is listed for a client
\* that sends no host header, or a form has an escape that is none
\* (file.cpp:191, string.cpp:105).
TerminationCause ==
  stage = "terminated" =>
    \/ rq.method = "GET" /\ ~rq.host /\ info = "dir" /\ loc.autoindex
    \/ rq.method = "POST" /\ rq.content = Bad /\ ~rq.chunked
=============================================================================
