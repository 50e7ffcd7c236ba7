----------------------------- MODULE MCGraphLoad -----------------------------
(* GraphLoad on three pages: a gear, the machine that makes it, and a        *)
(* technology called "automation (research)" by its page and "automation" by *)
(* those who refer to it.                                                    *)
EXTENDS RecipeTree

MCTitles == {"gear", "machine", "tech_r"}
MCNames == MCTitles \cup {"gear_r", "machine_r", "tech_r_r", "tech", "ore"}
MCTypeMap == [item |-> {"Item"}, fluid |-> {"Item", "Fluid"}, recipe |-> {"Recipe"},
              technology |-> {"Unlock"}, ignored |-> {}]
MCTypeRules == <<[present |-> {"allows"}, emit |-> {"Unlock"}],
                 [present |-> {"recipe"}, emit |-> {"Item"}]>>
MCRecipeTitle == [gear |-> "gear_r", machine |-> "machine_r", tech_r |-> "tech_r_r"]
MCSuffixed == [n \in MCNames |-> IF n = "tech" THEN <<"tech_r">> ELSE <<"ore">>]

Page(type, params) == [type |-> type, params |-> params]
FromOre == [inputs |-> {"ore", "machine"}, outputs |-> {}]
OreToMachine == [inputs |-> {"ore", "gear"}, outputs |-> {"machine"}]
FromGear == [inputs |-> {"gear"}, outputs |-> {}]

MCContents ==
    [gear |-> {NoPage,
               Page("item", [recipe |-> FromOre, producers |-> {"machine"}]),
               Page("recipe", [recipe |-> OreToMachine, producers |-> {"machine"}]),
               Page("none", [recipe |-> Broken, producers |-> {"machine"}, allows |-> {"tech"}])},
     machine |-> {Page("ignored", [stack_size |-> TRUE]),
                  Page("item", [stack_size |-> TRUE, consumers |-> {"gear"}]),
                  Page("item", [recipe |-> FromGear]),
                  Page("fluid", [stack_size |-> TRUE])},
     tech_r |-> {Page("technology", [effects |-> {"gear"}, cost |-> {"machine"}]),
                 Page("none", [allows |-> {"tech"}, required |-> {"gear", "tech_r"}])}]

MCRawItems == {{}, {"machine"}}

\* "ore" is another name of the machine; the gear's page may be redirected to it.
Alias == [n \in MCNames |-> IF n = "ore" THEN "machine" ELSE NoTitle]
NoRedirects == {Alias}
MCRedirects == {Alias, [Alias EXCEPT !["gear"] = "machine"]}
=============================================================================
