----------------------------- MODULE MCResources -----------------------------
(***************************************************************************)
(* A Deployment and a Service of one namespace, a cluster-scoped kind of a *)
(* group, a Node, and a kind the cluster does not serve.                   *)
(***************************************************************************)
EXTENDS ReleaseResources

CONSTANTS comment, malformed

Object(group, kind, ns) ==
    [group |-> group, version |-> "v1", kind |-> kind, namespace |-> ns,
     name |-> "x"]

MCDeployment == Object("apps", "Deployment", "ns")
MCService    == Object("core", "Service", "ns")
MCRole       == Object("rbac", "ClusterRole", None)
MCNode       == Object("core", "Node", None)
MCUnknown    == Object("apps", "Unknown", "ns")

MCObjects == {MCDeployment, MCService, MCRole, MCNode, MCUnknown}

MCServed == {"Deployment", "Service", "ClusterRole", "Node"}
MCPlural == [k \in MCServed \cup {"Unknown"} |->
                CASE k = "Deployment"  -> "deployments"
                  [] k = "Service"     -> "services"
                  [] k = "ClusterRole" -> "clusterroles"
                  [] k = "Node"        -> "nodes"
                  [] k = "Unknown"     -> "unknowns"]

\* Blank, without an object, with documents between the objects, cut short.
MCManifests ==
    {<<>>, <<comment>>, <<comment, MCDeployment, comment, MCService>>,
     <<MCNode, MCRole>>, <<MCService, malformed>>, <<MCDeployment, MCUnknown>>}

\* A handler that has the mapper it was given, and the one NewHandler makes:
\* it drops the mapper.
MCScopes  == {"Deployment", "Service"}
MCMappers == {None, MCScopes}

\* The definition of ObjectsInOrder and that of the library agree.
ASSUME SelectSeqAgrees ==
    \A m \in MCManifests :
        AreObjectsOf(SelectSeq(m, LAMBDA doc : doc \in MCObjects), m, Len(m))

=============================================================================
