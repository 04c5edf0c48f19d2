---------------------------- MODULE MCApiHandler ----------------------------
(***************************************************************************)
(* Instances of ApiHandler for TLC.                                        *)
(***************************************************************************)
EXTENDS ApiHandlerRefinement, TLC

ThreadSymmetry == Permutations(Workers)

(* Two threads, the requests whose steps can disturb one another.          *)
RacePaths == {"logout", "info"}
UserLogin == {Creds("user")}
BothLogins == {Creds("admin"), Creds("user")}
NoLooseHeaders == {}

(* One thread, every request.                                              *)
AllPaths == {"login", "logout", "info", "secret", "settings", "other"}
AllBodies == Body
AllLooseHeaders == {Absent, Foreign, Piece}
=============================================================================
