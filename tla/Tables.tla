------------------------------- MODULE Tables -------------------------------
(***************************************************************************)
(* The sessions, the club and the caches side by side, for one run of the  *)
(* model checker: a behaviour is one of SessionTable, one of Club about    *)
(* its likes or about its comments, or one of Caches.  A like and a        *)
(* comment of one poem write different numbers of its row and wait for     *)
(* nobody of the other kind but for the poem, so that they too may be      *)
(* looked at one kind at a time.                                           *)
(***************************************************************************)
EXTENDS SessionTable, Club, Caches

VARIABLE side

tablesVars == <<side, vars, clubVars, cachesVars>>

\* A side that is left alone has one initial state.
TablesInit ==
    /\ side \in {"sessions", "likes", "comments", "caches"}
    /\ Init /\ ClubInit /\ CachesInit
    /\ side # "caches" => subject = "me"

TablesNext ==
    /\ UNCHANGED side
    /\ \/ side = "sessions" /\ Next /\ UNCHANGED <<clubVars, cachesVars>>
       \/ side = "likes" /\ (PoemsNext \/ LikesNext) /\ UNCHANGED <<vars, cachesVars>>
       \/ side = "comments" /\ (PoemsNext \/ RemarksNext) /\ UNCHANGED <<vars, cachesVars>>
       \/ side = "caches" /\ CachesNext /\ UNCHANGED <<vars, clubVars>>

TablesSpec == TablesInit /\ [][TablesNext]_tablesVars

\* Only the requests of SessionTable wait for locks step by step, and are owed them.
FairTablesSpec == TablesSpec /\ Fairness

\* The values of every variable of the three are what the modules say.
TablesTypeOK == TypeOK /\ ClubTypeOK /\ CachesTypeOK
=============================================================================
