------------------------------ MODULE MCPrefix ------------------------------
(* Apps that ask for the same name, for what a collision produces, or for  *)
(* names that only slugify makes equal.                                    *)
EXTENDS PrefixRegistry, TLC

Foo == [base |-> "foo", suffix |-> <<>>]

FooIdents == {"foo", "foo-", "foo-2"}
FooSlug == [i \in FooIdents |-> IF i = "foo-2" THEN [Foo EXCEPT !.suffix = <<2>>] ELSE Foo]

ShellIdents == {"foo", "shell"}
ShellSlug == [i \in ShellIdents |-> IF i = "shell" THEN ShellName ELSE Foo]

AppSymmetry == Permutations(Apps)

=============================================================================
