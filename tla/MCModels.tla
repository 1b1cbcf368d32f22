------------------------------ MODULE MCModels ------------------------------
(***************************************************************************)
(* Instances of the two modules about the models a server works with: the  *)
(* backend in use and the files on disk.  They touch no state of each      *)
(* other.  A behaviour is a behaviour of one of them, chosen at the start, *)
(* and the other rests.                                                    *)
(***************************************************************************)
EXTENDS ModelServer, MCModelCache

VARIABLE part

modelsVars == <<serverVars, cacheVars, part>>

ModelsInit ==
    /\ part \in {"server", "cache"}
    /\ ServerInit /\ CacheInit
    /\ part = "cache" => ~pooled

ServerPart == part = "server" /\ ServerNext /\ UNCHANGED <<cacheVars, part>>
CachePart == part = "cache" /\ CacheNext /\ UNCHANGED <<serverVars, part>>

\* The bound ends the requests for files; nothing else may.
Ended ==
    /\ part = "cache" /\ requests = MaxRequests /\ Quiet
    /\ UNCHANGED modelsVars

ModelsNext == ServerPart \/ CachePart \/ Ended

\* The fairness of a load under way.
ModelsSpec == ModelsInit /\ [][ModelsNext]_modelsVars /\ LoadFairness
=============================================================================
