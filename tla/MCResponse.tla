----------------------------- MODULE MCResponse ------------------------------
(***************************************************************************)
(* HeadQuery::execute gives a response to the statistics and to the action *)
(* (HeadOutput), and then its status and Location to the redirect policy   *)
(* (Redirects).  Neither looks at what the other keeps, so each part is    *)
(* checked in all its states with the other one at rest.                   *)
(***************************************************************************)
EXTENDS HeadOutput, MCRedirects

ResponseInit == Init /\ RedirectInit

\* A response that redirects nowhere.
NoRedirect == status_code = 304 /\ location = <<>> /\ current = <<"/">> /\ ~answered

ResponseNext == \/ NoRedirect /\ Next /\ UNCHANGED redirectVars
                \/ Init /\ RedirectNext /\ UNCHANGED vars

ResponseSpec == ResponseInit /\ [][ResponseNext]_<<vars, redirectVars>>
=============================================================================
