--------------------------------- MODULE MCSite ---------------------------------
\* Two directories of apps, one inside the site and one of VEL_APPS, and five
\* things each may hold: apps that need vel.yaml, that import what is refused,
\* that Discover does not accept, without code.
EXTENDS Site, TLC

Panel(folder, id, position, contract) ==
  [folder |-> folder, id |-> id, position |-> position, contract |-> contract,
   json |-> TRUE, sound |-> id = folder]

Core == {Panel(1, 1, 1, TRUE), Panel(4, 4, 1, TRUE)}
Custom == {Panel(2, 3, 2, FALSE)}

App(name, imports, caps, panels, order, landing) ==
  [json |-> "good", sound |-> TRUE, name |-> name, code |-> imports # {},
   imports |-> imports, caps |-> caps, panels |-> panels, order |-> order, landing |-> landing]

Five ==
  { App("a", {"fmt", "os"}, {}, {Panel(2, 2, 1, TRUE), Panel(3, 3, 1, TRUE)}, <<4, 2>>, TRUE),
    App("a", {}, {}, {}, <<2, 4, 2>>, FALSE),
    App("b", {"os"}, {}, {Panel(5, 5, 1, TRUE), Panel(6, 6, 1, TRUE)}, <<6>>, FALSE),
    App("b", {"yaml", "exec"}, {"yaml"}, {Panel(2, 2, 1, TRUE), Panel(3, 1, 1, FALSE)}, <<>>, TRUE),
    [App("b", {"yaml"}, {"yaml"}, {Panel(1, 5, 1, TRUE)}, <<>>, FALSE) EXCEPT !.sound = FALSE] }

Allows == ("a" :> {"os"}) @@ ("b" :> {})
ConfigOrders == {<<>>, <<6, 1>>}
Symmetry == Permutations(Builders)
=============================================================================
