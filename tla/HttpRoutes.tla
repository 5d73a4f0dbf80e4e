------------------------------ MODULE HttpRoutes ------------------------------
(***************************************************************************)
(* lib_http's routes: a std::map from the method and the path of a route   *)
(* to its handler, searched in the map's order for the first that matches  *)
(* a request.  Methods, and the characters of a path, are numbers in the   *)
(* order of the map: "*" is the first character of all.                    *)
(*                                                                         *)
(* A handler is the number of the assignment that set it.                  *)
(***************************************************************************)
EXTENDS Naturals, Sequences, SequencesExt, FiniteSets, FiniteSetsExt

CONSTANTS Methods,     \* of requests
          Characters,  \* of paths, without "*"
          MaxPath,     \* bound: characters of a path
          MaxRoutes    \* bound: assignments

Star == 0

ASSUME RoutesAssumption ==
    /\ Methods \subseteq Nat /\ Characters \subseteq Nat \ {Star}
    /\ MaxPath \in Nat /\ MaxRoutes \in Nat

VARIABLES routes,   \* HttpHandlerMap
          added     \* history: what was assigned

routesVars == <<routes, added>>

(* tls_match: only http, only tls, both.                                   *)
TLS_MATCH == {"none", "only", "both"}

Paths(characters) == BoundedSeq(characters, MaxPath) \ {<<>>}

MethodPath == [method : Methods, path : Paths(Characters \cup {Star}), tls_match : TLS_MATCH]

RoutesInit == routes = {} /\ added = {}

-----------------------------------------------------------------------------
(* The order of the map leaves tls_match out.                              *)

Shorter(p, q) == IF Len(p) < Len(q) THEN Len(p) ELSE Len(q)

(* std::string's <.                                                        *)
PathBefore(p, q) ==
    \/ IsStrictPrefix(p, q)
    \/ \E i \in 1 .. Shorter(p, q) : SubSeq(p, 1, i - 1) = SubSeq(q, 1, i - 1) /\ p[i] < q[i]

Before(a, b) == \/ a.method < b.method
                \/ a.method = b.method /\ PathBefore(a.path, b.path)

SameKey(a, b) == ~Before(a, b) /\ ~Before(b, a)

(* routes[key] = handler: with a key already there only its handler        *)
(* changes, its tls_match stays.                                           *)
Assign(key) ==
    /\ Cardinality(added) < MaxRoutes
    /\ LET handler == Cardinality(added) + 1
           equal == {r \in routes : SameKey(r.key, key)}
       IN /\ routes' = (routes \ equal) \cup
                {[key |-> IF equal = {} THEN key ELSE (CHOOSE r \in equal : TRUE).key,
                  handler |-> handler]}
          /\ added' = added \cup {[key |-> key, handler |-> handler]}

-----------------------------------------------------------------------------
(* find_http_handler                                                       *)

(* A bug the checks must see: routes for tls only are found without.       *)
MutAdmits(key, is_tls) == ~(key.tls_match = "none" /\ is_tls)

Admits(key, is_tls) == key.tls_match # (IF is_tls THEN "none" ELSE "only")

(* The first mismatch is a "*" of the route, or there is none and both     *)
(* paths end.                                                              *)
Matches(key, method, path) ==
    /\ key.method = method /\ Len(key.path) <= Len(path)
    /\ LET differ == {i \in DOMAIN key.path : key.path[i] # path[i]} IN
       IF differ = {} THEN Len(key.path) = Len(path) ELSE key.path[Min(differ)] = Star

(* 0: none.                                                                *)
FindHandler(table, method, path, is_tls) ==
    LET found == {r \in table : Admits(r.key, is_tls) /\ Matches(r.key, method, path)} IN
    IF found = {} THEN 0
    ELSE (CHOOSE r \in found : \A o \in found \ {r} : Before(r.key, o.key)).handler

RoutesNext == \E key \in MethodPath : Assign(key)

RoutesSpec == RoutesInit /\ [][RoutesNext]_routesVars

-----------------------------------------------------------------------------
(* Properties                                                              *)

(* A new route takes requests from others only if it is made for them, and *)
(* leaves none of those without a handler: a route behind tls stays behind *)
(* tls, and one that matches nothing changes nothing.  ("we have a match   *)
(* if the cb url has an * at the first mismatch, or if both paths are the  *)
(* same", http_request.cpp:243.)  A key that is there already keeps its    *)
(* tls_match.                                                              *)
MeantFor(key, method, path, is_tls) ==
    /\ key.method = method
    /\ is_tls => key.tls_match \in {"only", "both"}
    /\ ~is_tls => key.tls_match \in {"none", "both"}
    /\ \/ key.path = path
       \/ \E i \in DOMAIN key.path :
             /\ key.path[i] = Star /\ Len(key.path) <= Len(path)
             /\ SubSeq(path, 1, i - 1) = SubSeq(key.path, 1, i - 1)

RoutesAreIndependent ==
    [][\A new \in added' \ added :
          \/ \E r \in routes : SameKey(r.key, new.key)
          \/ \A method \in Methods, path \in Paths(Characters), is_tls \in BOOLEAN :
                IF MeantFor(new.key, method, path, is_tls)
                THEN FindHandler(routes', method, path, is_tls) # 0
                ELSE FindHandler(routes', method, path, is_tls)
                         = FindHandler(routes, method, path, is_tls)]_routesVars

=============================================================================
