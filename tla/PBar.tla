------------------------------- MODULE PBar -------------------------------
(***************************************************************************)
(* The progress bar of go/pbar: Start receives increments from an          *)
(* unbuffered channel and draws, with counters of uint64 and widths of     *)
(* uint16.  Another goroutine sends, and may start the bar again; the      *)
(* terminal is resized at any time.                                        *)
(***************************************************************************)
EXTENDS Integers

CONSTANTS Uint16, Uint64,  \* moduli of the two types, scaled down
          Targets, Incs,   \* totals and increments
          Columns,         \* widths of the terminal
          MaxSends         \* bound: increments sent

fraction == 24
minw == 3 + 5 + fraction  \* barBox, percent, fraction

VARIABLES
    goroutine, \* Start: "idle", "receive", "check", or "panic"
    total, finish, inc,
    ts_cols,   \* width of the terminal
    line,      \* the line drawn last
    sends      \* increments sent

vars == <<goroutine, total, finish, inc, ts_cols, line, sends>>

NoLine == [cols |-> 0, at |-> 0, pct |-> 0, bar |-> 0, blank |-> 0, ended |-> FALSE]

Init ==
    /\ goroutine = "idle" /\ total = 0 /\ finish = 0 /\ inc = 0
    /\ ts_cols \in Columns /\ line = NoLine /\ sends = 0

Resize ==
    /\ ts_cols' \in Columns \ {ts_cols}
    /\ UNCHANGED <<goroutine, total, finish, inc, line, sends>>

\* Start called for the first time, or again after the channel was closed: finish stays.
Start ==
    /\ goroutine = "idle" /\ sends < MaxSends
    /\ total' \in Targets
    /\ goroutine' = "receive"
    /\ UNCHANGED <<finish, inc, ts_cols, line, sends>>

Receive ==
    /\ goroutine = "receive" /\ sends < MaxSends
    /\ inc' \in Incs
    /\ sends' = sends + 1
    /\ goroutine' = "check"
    /\ UNCHANGED <<total, finish, ts_cols, line>>

Closed ==
    /\ goroutine = "receive"
    /\ goroutine' = "idle"
    /\ UNCHANGED <<total, finish, inc, ts_cols, line, sends>>

\* Mutant: the blanks fill up the whole width.
drawnWide(at) ==
    LET w  == (ts_cols - minw) % Uint16
        bw == ((at * w) % Uint64) \div total
    IN  [cols |-> ts_cols, at |-> at, pct |-> ((at * 100) % Uint64) \div total,
         bar |-> bw, blank |-> (ts_cols - bw) % Uint16, ended |-> at = total]
\* updateBar, with at for bar.finish.
drawn(at) ==
    LET w  == (ts_cols - minw) % Uint16
        bw == ((at * w) % Uint64) \div total
    IN  [cols |-> ts_cols, at |-> at, pct |-> ((at * 100) % Uint64) \div total,
         bar |-> bw, blank |-> (w - bw) % Uint16, ended |-> at = total]

\* The width is read again.  What exceeds the total is counted and not drawn (the
\* error is ignored); a division by zero ends the program.
Check ==
    /\ goroutine = "check"
    /\ finish' = (finish + inc) % Uint64
    /\ IF finish' <= total /\ total = 0
       THEN goroutine' = "panic" /\ UNCHANGED line
       ELSE /\ line' = IF finish' > total THEN line ELSE drawn(finish')
            /\ goroutine' = "receive"
    /\ UNCHANGED <<total, inc, ts_cols, sends>>

Next == Resize \/ Start \/ Receive \/ Closed \/ Check

-----------------------------------------------------------------------------
(* Properties                                                              *)

\* On a terminal that has room for it, as long as no product overflows, a line is as
\* wide as intended (the fraction is reserved, not printed), and it shows a full bar
\* and 100% exactly when it is the one that is ended (pbar.go:49-61).
LineFits ==
    LET w == line.cols - minw
    IN  /\ line # NoLine /\ w > 0
        /\ line.at * w < Uint64 /\ line.at * 100 < Uint64
        => /\ 5 + 1 + line.bar + 1 + line.blank + 1 = line.cols - fraction
           /\ line.ended <=> line.bar = w
           /\ line.ended <=> line.pct = 100
=============================================================================
