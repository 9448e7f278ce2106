------------------------------- MODULE Platform -------------------------------
(***************************************************************************)
(* The constants that the models of the platform's domains share.          *)
(***************************************************************************)
CONSTANTS
  Users,      \* accounts
  Contents,   \* posts and comments
  Requests,   \* requests of users that the server handles at a time
  Admin,      \* the administrator whose request is handled
  None        \* no value of the others

ASSUME PlatformAssumption == None \notin Users
=============================================================================
