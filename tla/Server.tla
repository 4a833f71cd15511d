------------------------------- MODULE Server -------------------------------
(***************************************************************************)
(* The accounts, the browsers that are signed in and the codes that        *)
(* confirm an address side by side, for one run of the model checker: a    *)
(* behaviour is one of Accounts, of SessionCookies or of EmailCodes.  No   *)
(* variable of one is read by the others, so that the behaviours of the    *)
(* three, one at a time, are all that there is to see of each.             *)
(***************************************************************************)
EXTENDS Accounts, SessionCookies, EmailCodes

VARIABLE side

serverVars == <<side, accountsVars, allVars, codesVars>>

\* A side that is left alone has one initial state.
ServerInit ==
    /\ side \in {"accounts", "browsers", "codes"}
    /\ AccountsInit /\ CookiesInit /\ CodesInit
    /\ side # "accounts" => Admins = Users

ServerNext ==
    /\ UNCHANGED side
    /\ \/ side = "accounts" /\ AccountsNext /\ UNCHANGED <<allVars, codesVars>>
       \/ side = "browsers" /\ CookiesNext /\ UNCHANGED <<accountsVars, codesVars>>
       \/ side = "codes" /\ CodesNext /\ UNCHANGED <<accountsVars, allVars>>

ServerSpec == ServerInit /\ [][ServerNext]_serverVars

ServerTypeOK == AccountsTypeOK /\ CookiesTypeOK /\ CodesTypeOK
=============================================================================
