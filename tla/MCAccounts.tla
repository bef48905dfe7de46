----------------------------- MODULE MCAccounts -----------------------------
(***************************************************************************)
(* Instances of Accounts for TLC.  ann and Ann have the same slug.  Each   *)
(* world puts one thing to the test: roles, new accounts and resets, the   *)
(* first use of the signing key, and the limiter (half-second ticks).      *)
(***************************************************************************)
EXTENDS Accounts

AccountNames == {"ann", "Ann", "bob", "cat"}
Slugs == [name \in AccountNames |-> IF name = "Ann" THEN "ann" ELSE name]

Account(name, role, stale) ==
    [name |-> name, role |-> role, password |-> "old", stale |-> stale]

Roles == [kinds |-> {"set_role"}, fresh |-> FALSE, clock |-> 0,
          users |-> <<Account("ann", "admin", FALSE), Account("bob", "admin", FALSE),
                      Account("cat", "player", FALSE)>>]

NewAccounts == [kinds |-> {"create", "create_admin"}, fresh |-> FALSE, clock |-> 0,
                users |-> <<Account("bob", "admin", FALSE)>>]

Resets == [kinds |-> {"login", "reset_password"}, fresh |-> FALSE, clock |-> 0,
           users |-> <<Account("ann", "admin", TRUE)>>]

FirstUse == [kinds |-> {"login", "logout", "page"}, fresh |-> TRUE, clock |-> 0,
             users |-> <<Account("ann", "admin", FALSE)>>]

Throttled == [kinds |-> {"login"}, fresh |-> FALSE, clock |-> 5,
              users |-> <<Account("ann", "admin", FALSE)>>]

AllWorlds == {Roles, NewAccounts, Resets, FirstUse, Throttled}
OnlyRoles == {Roles}

Symmetry == Permutations(Requests)

=============================================================================
