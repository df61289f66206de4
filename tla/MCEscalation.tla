---------------------------- MODULE MCEscalation ----------------------------
EXTENDS Escalation

Entry(l, t, d, ok, n) == [lang |-> l, type |-> t, date |-> d, sound |-> ok, nr |-> n]

\* Date 0 has plenty in French, date 1 something in English and with births,
\* date 2 one event and an entry that the filters drop.
MCEntries ==
    {Entry("fr", "events", 0, TRUE, 1), Entry("fr", "events", 0, TRUE, 2),
     Entry("fr", "births", 1, TRUE, 1), Entry("en", "events", 1, TRUE, 1),
     Entry("fr", "events", 2, TRUE, 1), Entry("fr", "events", 2, FALSE, 2)}
=============================================================================
