-------------------------------- MODULE Plic --------------------------------
(***************************************************************************)
(* Interrupt lines and their handlers: hal/soc/scm2010/plic.c, and with the*)
(* same code for software interrupts plic-sw.c.  Drivers put their handlers*)
(* on the chain of a line with request_irq and take them off with free_irq;*)
(* mext_interrupt calls every handler of the chain.                        *)
(*                                                                         *)
(* Devices are probed and shut down one at a time, so the calls of         *)
(* request_irq and free_irq do not overlap; interrupts, of this line and of*)
(* the others, come in between their steps.                                *)
(***************************************************************************)
EXTENDS Naturals, Sequences, FiniteSets

CONSTANTS Irqs,     \* the lines
          Drivers,  \* the drivers, each with one handler and one name
          Line,     \* the line of each driver
          Leavers   \* the drivers that call free_irq when they shut down

ASSUME LineAssumption == Line \in [Drivers -> Irqs] /\ Leavers \subseteq Drivers

VARIABLES
  irq_table,  \* the chain of each line, by the drivers of its entries
  enabled,    \* the lines enabled in the PLIC
  asserted,   \* the drivers whose devices hold their line
  at          \* where each driver is

plic == <<irq_table, enabled, asserted, at>>

DriverPoints == {"out", "linked", "in", "search", "spin", "found"}

PlicInit ==
  /\ irq_table = [l \in Irqs |-> <<>>]
  /\ enabled = {}
  /\ asserted = {}
  /\ at = [d \in Drivers |-> "out"]

Chain(l) == {irq_table[l][i] : i \in DOMAIN irq_table[l]}

(* No driver is inside request_irq or free_irq. *)
Quiet == \A d \in Drivers : at[d] \in {"out", "in"}

(* request_irq: the handler goes to the end of the chain, once. *)
request_irq_link(d) ==
  /\ Quiet
  /\ at[d] = "out"
  /\ irq_table' = [irq_table EXCEPT
                     ![Line[d]] = IF d \in Chain(Line[d]) THEN @ ELSE Append(@, d)]
  /\ at' = [at EXCEPT ![d] = "linked"]
  /\ UNCHANGED <<enabled, asserted>>

(* request_irq: set_intprio and enable_int. *)
request_irq_enable(d) ==
  /\ at[d] = "linked"
  /\ enabled' = enabled \cup {Line[d]}
  /\ at' = [at EXCEPT ![d] = "in"]
  /\ UNCHANGED <<irq_table, asserted>>

(* free_irq: the line is disabled.  The driver has quiesced its device. *)
free_irq_disable(d) ==
  /\ d \in Leavers
  /\ Quiet
  /\ at[d] = "in"
  /\ d \notin asserted
  /\ enabled' = enabled \ {Line[d]}
  /\ at' = [at EXCEPT ![d] = "search"]
  /\ UNCHANGED <<irq_table, asserted>>

(* free_irq: "for (i = irq_table[irq]; i != NULL; i = p)" looks at the     *)
(* first entry.  If the name is another, p becomes that entry, and so does *)
(* i: the loop looks at it for ever.  An empty chain ends the loop.        *)
free_irq_search(d) ==
  /\ at[d] = "search"
  /\ at' = [at EXCEPT ![d] = IF irq_table[Line[d]] = <<>> THEN "out"
                             ELSE IF Head(irq_table[Line[d]]) = d THEN "found"
                             ELSE "spin"]
  /\ UNCHANGED <<irq_table, enabled, asserted>>

(* Mutant: the first entry stays. *)
free_irq_unlink_Forgets(d) ==
  /\ at[d] = "found"
  /\ at' = [at EXCEPT ![d] = "out"]
  /\ UNCHANGED <<irq_table, enabled, asserted>>

(* free_irq found the first entry: the line's chain becomes empty.         *)
free_irq_unlink(d) ==
  /\ at[d] = "found"
  /\ irq_table' = [irq_table EXCEPT ![Line[d]] = <<>>]
  /\ at' = [at EXCEPT ![d] = "out"]
  /\ UNCHANGED <<enabled, asserted>>

(* A device asks for an interrupt (external). *)
raise(d) ==
  /\ at[d] = "in"
  /\ d \notin asserted
  /\ asserted' = asserted \cup {d}
  /\ UNCHANGED <<irq_table, enabled, at>>

(* Mutant: only the first handler of the chain is called. *)
mext_interrupt_FirstOnly(l) ==
  /\ l \in enabled
  /\ \E d \in asserted : Line[d] = l
  /\ asserted' = asserted \ (IF irq_table[l] = <<>> THEN {} ELSE {Head(irq_table[l])})
  /\ UNCHANGED <<irq_table, enabled, at>>

(* mext_interrupt and irq_handler: the line is claimed, every handler of   *)
(* the chain is called and serves its device, the line is completed.       *)
mext_interrupt(l) ==
  /\ l \in enabled
  /\ \E d \in asserted : Line[d] = l
  /\ asserted' = asserted \ Chain(l)
  /\ UNCHANGED <<irq_table, enabled, at>>

PlicNext ==
  \/ \E d \in Drivers :
       \/ request_irq_link(d) \/ request_irq_enable(d)
       \/ free_irq_disable(d) \/ free_irq_search(d) \/ free_irq_unlink(d)
       \/ raise(d)
  \/ \E l \in Irqs : mext_interrupt(l)

PlicSpec == PlicInit /\ [][PlicNext]_plic

(* The interrupt of an enabled line that is asserted is taken, and a       *)
(* driver goes on with the call it has begun.                              *)
PlicFairness ==
  /\ \A l \in Irqs : WF_plic(mext_interrupt(l))
  /\ \A d \in Drivers :
       WF_plic(request_irq_enable(d) \/ free_irq_search(d) \/ free_irq_unlink(d))

FairPlicSpec == PlicSpec /\ PlicFairness

-----------------------------------------------------------------------------
(* Properties *)

(* free_irq is at work on the line. *)
Freeing(l) == \E d \in Drivers : Line[d] = l /\ at[d] \in {"search", "spin", "found"}

(* A driver that has requested its interrupt and not freed it is on the    *)
(* chain of its line once, and the line is enabled, but while free_irq is  *)
(* at work on that line ("There is still a driver handling this            *)
(* interrupt"); one that has returned from free_irq has no entry left that *)
(* the interrupt would call after the kfree.                               *)
StillHandled ==
  \A d \in Drivers :
    /\ (at[d] = "in" /\ ~Freeing(Line[d])) =>
         /\ Line[d] \in enabled
         /\ Cardinality({i \in DOMAIN irq_table[Line[d]] : irq_table[Line[d]][i] = d}) = 1
    /\ at[d] = "out" => d \notin Chain(Line[d])

(* An asserted line is served: no device waits, and the interrupt does not *)
(* come again and again with nobody to serve it.                           *)
Served == \A d \in Drivers : d \in asserted ~> d \notin asserted
=============================================================================
