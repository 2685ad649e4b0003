------------------------- MODULE MCInstallTransaction -------------------------
(* Small instances of InstallTransaction: one menu of requests per question.  *)
EXTENDS InstallTransaction, TLC

CONSTANTS w1, w2, d1, bin, hook, policy, v1, v2, e1, c1, c2, n1, n2, r1

MCBoth == {bin, hook}
MCWriters == {w1, w2}

Ask(kind) ==
  [kind |-> kind, consumer |-> c1, files |-> <<>>, bundle |-> FALSE, on |-> FALSE,
   reservation |-> None, purge |-> FALSE, fenced |-> FALSE]

Install(c, files) == [Ask("install") EXCEPT !.consumer = c, !.files = files]
Switch(b) == [Ask("policy") EXCEPT !.on = b, !.fenced = TRUE]
Upgrade == Install(c1, (bin :> v2) @@ (hook :> v1))

\* A fresh install, an upgrade, enabling, and the two ways out of an interruption.
MCUpgrade ==
  {Install(c1, bin :> v1), Upgrade, Switch(TRUE), Ask("recover"), Ask("rollback")}

Bundled(files)  == [Install(c1, files) EXCEPT !.bundle = TRUE]
Uninstall(purge) == [Ask("remove") EXCEPT !.purge = purge]
Wizard(kind)    == [Ask(kind) EXCEPT !.reservation = r1, !.fenced = TRUE]

\* Installs that publish a callback bundle, uninstalls that keep or purge it, and
\* a setup wizard that reserves the installation, installs and clears.
MCLifecycle ==
  {Bundled(bin :> v1), Uninstall(FALSE), Uninstall(TRUE), Switch(FALSE),
   Wizard("reserve"), Wizard("clear"), Ask("recover"), Ask("rollback")}

WriterSymmetry == Permutations(MCWriters)
BundleSymmetry == Permutations(MCWriters) \cup Permutations({n1, n2})
=============================================================================
