---------------------------- MODULE HttpResponse ----------------------------
(***************************************************************************)
(* What http_server answers to a request: handle_request, down to the      *)
(* status of the response and whether it keeps the connection.             *)
(*                                                                         *)
(* A target is a sequence of tokens: "/", "." and names.  The files below  *)
(* doc_root are a parameter; what HandleApiRequest answers is ApiHandler's *)
(* matter and any of its statuses here.                                    *)
(***************************************************************************)
EXTENDS Naturals, SequencesExt, FiniteSetsExt

CONSTANTS
  doc_root,  \* the directory, main's second argument, in tokens
  Files,     \* what is on disk
  Targets,   \* what clients ask for
  ApiNames   \* the names that begin with "api"

File == [path: Seq(STRING), kind: {"file", "directory", "unreadable"}]

(* Whether async_read can parse it: "garbled" when not.                    *)
Request == [method: {"get", "head", "post", "options", "other", "garbled"},
            target: Targets, close: BOOLEAN]

ASSUME FilesAssumption ==
  /\ Files \subseteq File
  /\ \A f, g \in Files : f.path = g.path => f = g
  /\ "api" \in ApiNames

path_cat(base, path) ==
  IF base # << >> /\ Last(base) = "/" THEN Front(base) \o path ELSE base \o path

FilePath(target) ==
  path_cat(doc_root, target)
  \o (IF Last(target) = "/" THEN <<"index", ".", "html">> ELSE << >>)

-----------------------------------------------------------------------------
(* Responses.                                                              *)

Reply(request, status) == [status |-> status, keep_alive |-> ~request.close]

(* bad_request, not_found, server_error, unauthorized, forbidden.          *)
Refusal(request, status) == Reply(request, status)

FileReply(request) == Reply(request, 200)

(* A directory can be opened; nothing can that lies below a plain file or  *)
(* below a directory that is closed to the process.                        *)
OpenFile(request) ==
  LET path  == FilePath(request.target)
      found == {f \in Files : f.path = path}
      above == {f \in Files : /\ f.kind # "directory"
                              /\ IsPrefix(Append(f.path, "/"), path)}
  IN  IF \E f \in found : f.kind = "unreadable" THEN Refusal(request, 500)
      ELSE IF found # {} THEN FileReply(request)
      ELSE Refusal(request, IF above = {} THEN 404 ELSE 500)

OptionsReply(request) == Reply(request, 201)

ApiReplies(request) ==
  {Reply(request, 200)} \cup {Refusal(request, status) : status \in {400, 401, 403, 500}}

LegalTarget(target) ==
  /\ target # << >> /\ target[1] = "/"
  /\ \A i \in 1..(Len(target) - 1) : ~(target[i] = "." /\ target[i + 1] = ".")

AskedFile(request) ==
  \/ request.method = "head"
  \/ /\ request.method = "get"
     /\ ~(Len(request.target) > 1 /\ request.target[2] \in ApiNames)

Legal(request) ==
  request.method \in {"get", "head", "post", "options"} /\ LegalTarget(request.target)

AsksApi(request) ==
  Legal(request) /\ ~AskedFile(request) /\ request.method # "options"

handle_request(request) ==
  CASE ~Legal(request) -> {Refusal(request, 400)}
    [] Legal(request) /\ request.method = "options" -> {OptionsReply(request)}
    [] AsksApi(request) -> ApiReplies(request)
    [] OTHER -> {OpenFile(request)}

(* The first read of a directory fails before anything is written.         *)
Writable(request) ==
  request.method = "get" /\ AskedFile(request) /\ LegalTarget(request.target) =>
    \A f \in Files : f.path = FilePath(request.target) => f.kind # "directory"

need_eof(res) == ~res.keep_alive
=============================================================================
