--------------------------- MODULE ProductMapping ---------------------------
(***************************************************************************)
(* Which product, component and version of Bugzilla a report names.  The   *)
(* mapping is made from what drkonqi knows of the application and          *)
(* corrected when Bugzilla's description of the product arrives; when that *)
(* fails the first time, the product "kde" takes its place.                *)
(***************************************************************************)
EXTENDS FiniteSets

\* Versions: the application's own, that one without its last zero, the default,
\* and the name somebody gave the default on Bugzilla.
Versions == {"app", "shorter", "unspecified", "renamed"}

\* What Bugzilla says of a product: the versions it has, the one with the lowest
\* id among them, and if it has the component the mapping names.
ProductInfos ==
    {i \in [versions : SUBSET Versions, lowest : Versions, hasComponent : BOOLEAN] :
        i.versions # {} => i.lowest \in i.versions}

\* The constructor: product and component come from KCrash, the executable's
\* name or the mappings file.  "fits" is what is known of the version.
Mappings ==
    {[product |-> "own", component |-> c, version |-> "unspecified", fits |-> "unknown"] :
        c \in {"own", "general"}}

WithComponent(m, i) == IF i.hasComponent THEN m.component ELSE "general"

\* With ".00" at its end the application's version is tried without the last
\* zero, and the default is not looked at.
WithVersion_FaultTrusts(m, i, dotted) ==
    CASE "app" \in i.versions              -> "app"
      [] dotted /\ "shorter" \in i.versions -> "shorter"
      [] OTHER                             -> m.version
WithVersion(m, i, dotted) ==
    CASE "app" \in i.versions                                            -> "app"
      [] "app" \notin i.versions /\ dotted /\ "shorter" \in i.versions      -> "shorter"
      [] ~dotted /\ i.versions \cap {"app", m.version} = {} /\ i.versions # {} -> i.lowest
      [] OTHER                                                           -> m.version

CheckProductInfo(m, i, dotted) ==
    LET version == WithVersion(m, i, dotted)
    IN  [product   |-> m.product,
         component |-> WithComponent(m, i),
         version   |-> version,
         fits      |-> IF i.versions = {} THEN "unknown"
                       ELSE IF version \in i.versions THEN "yes" ELSE "no"]

FallBackToKDE(m) == [m EXCEPT !.product = "kde", !.component = "general"]
=============================================================================
