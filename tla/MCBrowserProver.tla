-------------------------- MODULE MCBrowserProver --------------------------
(***************************************************************************)
(* Instances of BrowserProver: three releases and scenarios that each      *)
(* stress one part.                                                        *)
(***************************************************************************)
EXTENDS BrowserProver, TLC

CONSTANTS c1, c2, c3, f1

Sections1 == << [count |-> 2, elem |-> 1], [count |-> 1, elem |-> 2], [count |-> 1, elem |-> 1] >>
Sections2 == << [count |-> 2, elem |-> 1], [count |-> 3, elem |-> 1], [count |-> 0, elem |-> 1] >>

Release1 == [key |-> "k1", sections |-> Sections1, chunkSize |-> 4, software |-> "s1",
             deployment |-> "d1", mainnet |-> TRUE, mpc |-> "mpc1", table |-> <<>>]
\* Another key: its file has the same size and its sections other places.
Release2 == [key |-> "k2", sections |-> Sections2, chunkSize |-> 4, software |-> "s1",
             deployment |-> "d2", mainnet |-> TRUE, mpc |-> "mpc2", table |-> <<>>]
\* The first key with other programs, and a chunk table whose second chunk
\* claims to begin where the first does.
Skewed(t) == [t EXCEPT ![2].offset = 0]
Release3 == [Release1 EXCEPT !.software = "s3", !.deployment = "d3",
                             !.table = Skewed(BuildChunkPins(Release1))]

MCReleases == {Release1, Release2, Release3}

MCOwned == [m1 |-> [t1 |-> "p1"], m2 |-> [t2 |-> "p2"]]

K(planned, url, w3, cpu) ==
  [planned |-> planned, ccsURL |-> url, ccsHash |-> None, w3 |-> w3, cpu |-> cpu]
\* The request names the constraint system of a key itself.
Naming(key, hash) == [key EXCEPT !.ccsHash = hash]
Ask(kind, key, m, t) == [kind |-> kind, key |-> key, master |-> m, target |-> t, explicit |-> {}]

Idle == Ask("none", K(TRUE, TRUE, TRUE, FALSE), "m1", "t1")

Planned(w3) == K(TRUE, TRUE, w3, FALSE)

Prove(key) == Ask("prove", key, "m1", "t1")
Scenario(shards, slots, w7, w8, a, b, c) ==
  [shards |-> shards, workers |-> slots, w7 |-> w7, w8 |-> w8,
   calls |-> c1 :> a @@ c2 :> b @@ c3 :> c]

MCScenarios ==
  { \* one proof, two shards on two workers, or on one after the other
    Scenario(2, 2, FALSE, FALSE, Prove(Planned(TRUE)), Idle, Idle),
    Scenario(2, 1, TRUE, FALSE, Prove(Planned(TRUE)), Idle, Idle),
    Scenario(2, 1, FALSE, FALSE, Prove(Planned(FALSE)), Idle, Idle),
    \* one proof with FFT workers; a probe that closes a pool it has not filled
    Scenario(1, 1, FALSE, TRUE, Prove(Planned(FALSE)), Idle, Idle),
    Scenario(1, 1, FALSE, TRUE, Ask("probe", Planned(TRUE), "m1", "t1"),
             Ask("discover", Planned(TRUE), "m1", "t2"), Idle),
    \* sessions: two proofs of a request that names the wrong system; a proof with another
    \* key; without a chunk manifest
    Scenario(1, 1, FALSE, FALSE, Ask("preflight", Naming(Planned(TRUE), "k2"), "m1", "t1"),
             Prove(Naming(Planned(TRUE), "k2")), Prove(Naming(Planned(TRUE), "k2"))),
    Scenario(1, 1, FALSE, FALSE, Ask("preflight", Planned(FALSE), "m1", "t1"),
             Prove(Planned(FALSE)), Prove(K(FALSE, TRUE, FALSE, TRUE))),
    Scenario(1, 1, FALSE, FALSE, Ask("preflight", K(FALSE, TRUE, TRUE, FALSE), "m1", "t1"),
             Prove(Naming(K(FALSE, TRUE, TRUE, FALSE), "k1")), Idle),
    Scenario(1, 1, FALSE, FALSE, Ask("preflight", Naming(K(FALSE, TRUE, TRUE, TRUE), "k1"), "m1", "t1"),
             Prove(Naming(K(FALSE, TRUE, TRUE, TRUE), "k1")), Prove(K(FALSE, TRUE, TRUE, TRUE))),
    Scenario(2, 1, FALSE, FALSE, Prove(K(FALSE, FALSE, TRUE, FALSE)), Idle, Idle),
    Scenario(2, 2, FALSE, FALSE, Prove(K(FALSE, FALSE, FALSE, FALSE)), Idle, Idle),
    \* proofs on the CPU beside searches for other master keys
    Scenario(1, 1, FALSE, FALSE, [Prove(K(TRUE, TRUE, FALSE, TRUE)) EXCEPT !.explicit = {"p1", "p2"}],
             Idle, Idle),
    Scenario(1, 1, FALSE, FALSE, Prove(K(TRUE, TRUE, FALSE, TRUE)),
             Ask("discover", K(TRUE, TRUE, FALSE, TRUE), "m2", "t2"),
             Ask("prove", K(TRUE, TRUE, FALSE, TRUE), "m1", "t2")) }
=============================================================================
