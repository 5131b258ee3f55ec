----------------------------- MODULE MCPlugins ------------------------------
(* A small registry for TLC: "app" requires "lib", which only a remote     *)
(* worker could run, and drops a capability in its second build.           *)
EXTENDS Plugins, TLC

On(plugin, optional, range) ==
  <<[plugin |-> plugin, optional |-> optional, range |-> range]>>

(* Every build has a contract of its own, numbered like the build.         *)
Build(class, version, deps, requests, handler, workflows) ==
  [class |-> class, version |-> version, contract |-> version, deps |-> deps,
   requests |-> requests, handler |-> handler, workflows |-> workflows]

(* a goes to b and c, c back to a through what kind says.                  *)
Loop(kind) ==
  [entry_node |-> "a", actions |-> {"read"},
   nodes |-> ("a" :> "ACTIVITY" @@ "b" :> "ACTIVITY" @@ "c" :> kind),
   edges |-> <<[from |-> "a", to |-> "b", condition |-> "SUCCESS"],
               [from |-> "a", to |-> "c", condition |-> "FAILURE"],
               [from |-> "c", to |-> "a", condition |-> "SUCCESS"]>>]

(* The third build of app has a cycle outside of a bounded loop, the       *)
(* fourth asks for less than its handler needs: neither is installed.      *)
MCManifest ==
  [app |-> [a1 |-> Build("WASM_COMPONENT", 1, On("lib", FALSE, {1}),
                         {"read", "send"}, {"read"}, {Loop("BOUNDED_LOOP")}),
            a2 |-> Build("TRUSTED_NATIVE", 2, On("lib", TRUE, {1, 2}), {"read"},
                         {"read"}, {}),
            a3 |-> Build("WASM_COMPONENT", 3, <<>>, {"read"}, {"read"},
                         {Loop("ACTIVITY")}),
            a4 |-> Build("WASM_COMPONENT", 4, <<>>, {}, {"read"}, {})],
   lib |-> [l1 |-> Build("REMOTE_WORKER", 1, <<>>, {}, {}, {}),
            l2 |-> Build("REMOTE_WORKER", 2, <<>>, {}, {}, {})]]

MCOrder == <<"app", "lib">>

MCActions == {"plugin.invoke", "read"}
MCResources == Plugins \X (1..MaxVersion)

CONSTANTS p1, p2

MCOffers ==
  {[creator |-> p1, delegate |-> p2, actions |-> MCActions,
    on |-> {"app", "lib"}],
   [creator |-> p2, delegate |-> p1, actions |-> MCActions, on |-> {"app"}]}

CONSTANT MaxLoad
(* The bound on how much beside the registry itself happens in one         *)
(* behaviour: grants, seconds, runs, products, kill switches, lost trust,  *)
(* plugins late in their life, a second build of lib.                      *)
Load ==
  Cardinality({g \in Grants : grants[g].state # "NONE"}) + now
  + Cardinality({r \in Runs : runs[r].plugin # "NULL"})
  + Cardinality({q \in Products : products[q] # <<>>})
  + Cardinality(killed) + Cardinality(untrusted)
  + Cardinality({p \in Plugins : inst[p].version >= MaxVersion - 1})
  + Cardinality({p \in Plugins : inst[p].digest = "l2"})

GrantSymmetry == Permutations(Grants)

Focus == Load <= MaxLoad

=============================================================================
