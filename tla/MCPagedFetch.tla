----------------------------- MODULE MCPagedFetch ----------------------------
(* Small instances of PagedFetch: three jobs, answers of one and two pages. *)
EXTENDS PagedFetch

MCJobs == {1, 2, 3}

Of(side, rate, id) == [side |-> side, rate |-> rate, id |-> id]

\* Two currencies with lines on different pages, one without a line; the best
\* offer of a side on the last page; two issuers of one ledger.
MCPages ==
  [s \in Scripts |->
    CASE s = "lines"   -> <<<< <<"A">>, <<"B">> >>, << <<"C">> >>, << <<>> >>>>
      [] s = "offers"  -> <<<< <<1>>, <<2>> >>, << <<3>> >>, << <<>> >>>>
      [] s = "ticks"   -> <<<< <<5>> >>, << <<0>> >>, << <<6>> >>>>
      [] s = "prebook" ->
           <<<< <<Of("getsXRP", 2, 1), Of("getsrUSD", 1, 2), Of("getsXRP", 2, 3)>>,
                <<Of("getsXRP", 1, 4)>> >>,
             << <<Of("getsrUSD", 2, 5), Of("getsrUSD", 1, 6)>> >>,
             << <<>> >>>>]

MCParts ==
  [s \in Scripts |->
    CASE s = "lines"   -> << <<"A", "B">>, <<"C">>, <<"A">> >>
      [] s = "offers"  -> << <<"offers">>, <<"offers">>, <<"offers">> >>
      [] s = "ticks"   -> << <<"tick">>, <<"tick">>, <<"tick">> >>
      [] s = "prebook" -> [j \in MCJobs |-> <<"getsXRP", "getsrUSD">>]]

MCWorkers == [s \in Scripts |-> IF s = "offers" THEN 1 ELSE 2]

MCLedgerOf == <<10, 10, 11>>
=============================================================================
