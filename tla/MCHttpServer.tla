---------------------------- MODULE MCHttpServer ----------------------------
(***************************************************************************)
(* HttpServer for TLC.                                                     *)
(***************************************************************************)
EXTENDS HttpServer

CONSTANTS c1, c2

Root == <<".">>
Api == <<"/", "api", "/", "info">>
Apix == <<"/", "apix">>
Page == <<"/", "page", ".", "txt">>
BelowPage == Page \o <<"/", "part">>
Folder == <<"/", "folder">>

MCTargets == {Api, Apix, Page, BelowPage, Folder}
MCApiNames == {"api", "apix"}

MCFiles ==
  { [path |-> Root \o Page, kind |-> "file"],
    [path |-> Root \o Folder, kind |-> "directory"] }

Ask(method, target, close) == [method |-> method, target |-> target, close |-> close]

(* One client may end the process or closes the connection, the other asks *)
(* for what is answered at once, for what cannot be sent, or for nothing   *)
(* that can be read.                                                       *)
MCRequests ==
  [ c \in Conns |->
      IF c = c1
      THEN {Ask("get", Apix, FALSE), Ask("head", BelowPage, TRUE)}
      ELSE {Ask("options", Api, FALSE), Ask("get", Folder, FALSE),
            Ask("garbled", Page, FALSE)} ]
=============================================================================
