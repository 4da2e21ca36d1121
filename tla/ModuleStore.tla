----------------------------- MODULE ModuleStore -----------------------------
(***************************************************************************)
(* What the modules handler promises: each module has at most one          *)
(* installed package, and a package is installed, replaced and taken away  *)
(* in one step.  A deletion first breaks the module (its files are gone),  *)
(* then forgets it; a deletion that fails half-way leaves it broken.       *)
(***************************************************************************)
CONSTANTS Module, Package, NoPackage, Broken, ModuleOf

VARIABLE installed

StoreInit == installed = [m \in Module |-> NoPackage]

Install(m, p) ==
    /\ installed[m] = NoPackage
    /\ installed' = [installed EXCEPT ![m] = p]

Replace(m, p) ==
    /\ installed[m] # NoPackage
    /\ installed' = [installed EXCEPT ![m] = p]

Break(m) ==
    /\ installed[m] \in Package
    /\ installed' = [installed EXCEPT ![m] = Broken]

Forget(m) ==
    /\ installed[m] = Broken
    /\ installed' = [installed EXCEPT ![m] = NoPackage]

StoreNext ==
    \E m \in Module :
        \/ \E p \in {q \in Package : ModuleOf[q] = m} : Install(m, p) \/ Replace(m, p)
        \/ Break(m)
        \/ Forget(m)

StoreSpec == StoreInit /\ [][StoreNext]_installed

=============================================================================
