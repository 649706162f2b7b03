------------------------------ MODULE MCBrowser ------------------------------
(* The instances of the Browser controller that TLC checks; every constant *)
(* is given in the .cfg files.                                             *)
EXTENDS BrowserProperties
=============================================================================
