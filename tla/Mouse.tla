------------------------------- MODULE Mouse --------------------------------
(***************************************************************************)
(* The mouse, devices/mouse.c: the handler that adds a packet's movement   *)
(* to a position of finer resolution and scales it to the screen, and the  *)
(* operations by which a program centres and places it.  These run with    *)
(* interrupts enabled and store one variable after the other: each store   *)
(* is a step, named in pc by what comes next.                              *)
(***************************************************************************)
EXTENDS Descriptors

CONSTANTS
  NUM_COLS, NUM_ROWS,
  FAKE_MOUSE_RES_X, FAKE_MOUSE_RES_Y,
  MAX_MOVEMENT,    \* 0xFF
  Packets,         \* packets the device sends
  Placements       \* pairs of chars that programs write

PacketRecords == [val : BOOLEAN, x_overflow : BOOLEAN, y_overflow : BOOLEAN,
                  x_sign_bit : BOOLEAN, y_sign_bit : BOOLEAN,
                  x_movement : 0..MAX_MOVEMENT, y_movement : 0..MAX_MOVEMENT]

ASSUME ScreenAssumption ==
  /\ NUM_COLS \in 1..128 /\ NUM_ROWS \in 1..128
  /\ FAKE_MOUSE_RES_X \in Nat \ {0} /\ FAKE_MOUSE_RES_X <= 32768 /\ FAKE_MOUSE_RES_X % 2 = 0
  /\ FAKE_MOUSE_RES_Y \in Nat \ {0} /\ FAKE_MOUSE_RES_Y <= 32768 /\ FAKE_MOUSE_RES_Y % 2 = 0
ASSUME PacketAssumption ==
  /\ MAX_MOVEMENT \in Nat
  /\ Packets \subseteq PacketRecords
  /\ Placements \subseteq (-128..127) \X (-128..127)

VARIABLES
  fake_mouse_pos_x, fake_mouse_pos_y,
  x_pos, y_pos,
  temp_y,          \* process -> local of mouse_write
  placed,          \* has mouse_write stored anything since the last packet or open? (history)
  torn             \* has a packet come during an open since the last one that did not? (history)

mouseVars == <<fake_mouse_pos_x, fake_mouse_pos_y, x_pos, y_pos, temp_y, placed, torn>>

MouseInit ==
  /\ fake_mouse_pos_x = FAKE_MOUSE_RES_X \div 2
  /\ fake_mouse_pos_y = FAKE_MOUSE_RES_Y \div 2
  /\ x_pos = NUM_COLS \div 2
  /\ y_pos = NUM_ROWS \div 2
  /\ temp_y = [p \in Procs |-> 0]
  /\ placed = FALSE
  /\ torn = FALSE

-----------------------------------------------------------------------------
\* An int stored in a uint16_t.
UInt16(v) == v % 65536

Maximum(a, b) == IF a > b THEN a ELSE b
Minimum(a, b) == IF a < b THEN a ELSE b

\* What the handler takes for the velocity: half the movement, rounded
\* towards zero; of a negative one the complement is taken, without its last 1.
Velocity(sign, movement) ==
  IF sign THEN -((MAX_MOVEMENT - movement) \div 2) ELSE movement \div 2

\* Edits of the definitions below that a mistake could make (see PROJECT.json).
Moved_NoLowerClamp(pos, v, res) == UInt16(Minimum(pos + v, res - 1))

Moved(pos, v, res) == UInt16(Minimum(Maximum(pos + v, 0), res - 1))

Scaled(pos, res, num) == (pos * num) \div res

\* Process p is between two stores of mouse_open.
Centring(p) == pc[p] \in {"centre_y", "centre_fake_x", "centre_fake_y"}

\* mouse_handler with a valid packet; others change nothing.  It runs behind an
\* interrupt gate, so its own stores are one step.
MouseHandler(packet) ==
  /\ Mouse \in workload.opens
  /\ packet.val /\ ~packet.x_overflow /\ ~packet.y_overflow
  /\ fake_mouse_pos_x' = Moved(fake_mouse_pos_x,
                               Velocity(packet.x_sign_bit, packet.x_movement), FAKE_MOUSE_RES_X)
  /\ fake_mouse_pos_y' = Moved(fake_mouse_pos_y,
                               -Velocity(packet.y_sign_bit, packet.y_movement), FAKE_MOUSE_RES_Y)
  /\ x_pos' = Scaled(fake_mouse_pos_x', FAKE_MOUSE_RES_X, NUM_COLS)
  /\ y_pos' = Scaled(fake_mouse_pos_y', FAKE_MOUSE_RES_Y, NUM_ROWS)
  /\ placed' = FALSE
  /\ torn' = \E p \in Procs : Centring(p)
  /\ returned' = <<>>
  /\ UNCHANGED <<fsVars, file, localVars, workload, listed, temp_y>>

\* What the steps below leave alone.
StoreOnly == UNCHANGED <<fsVars, opening, inode_idx, data_block_idx, new_dentry, workload>>

\* sys_open of "mouse", which is not looked up in the directory, as far as the
\* first store of mouse_open.  The descriptor's inode is never initialised, nor
\* used: 0 stands for it.
OpenMouse(p) ==
  /\ Calls(p)
  /\ Mouse \in workload.opens
  /\ FreeFds(p) # {}
  /\ Allocate(p, "mouse", 0)
  /\ x_pos' = NUM_COLS \div 2
  /\ placed' = FALSE
  /\ torn' = FALSE
  /\ pc' = [pc EXCEPT ![p] = "centre_y"]
  /\ returned' = <<>>
  /\ StoreOnly
  /\ UNCHANGED <<fake_mouse_pos_x, fake_mouse_pos_y, y_pos, temp_y>>

\* The three other stores of mouse_open, the last with the return of sys_open.
CentreY(p) ==
  /\ pc[p] = "centre_y"
  /\ y_pos' = NUM_ROWS \div 2
  /\ pc' = [pc EXCEPT ![p] = "centre_fake_x"]
  /\ returned' = <<>>
  /\ StoreOnly
  /\ UNCHANGED <<file, listed, fake_mouse_pos_x, fake_mouse_pos_y, x_pos, temp_y, placed, torn>>

CentreFakeX(p) ==
  /\ pc[p] = "centre_fake_x"
  /\ fake_mouse_pos_x' = FAKE_MOUSE_RES_X \div 2
  /\ pc' = [pc EXCEPT ![p] = "centre_fake_y"]
  /\ returned' = <<>>
  /\ StoreOnly
  /\ UNCHANGED <<file, listed, fake_mouse_pos_y, x_pos, y_pos, temp_y, placed, torn>>

CentreFakeY(p) ==
  /\ pc[p] = "centre_fake_y"
  /\ fake_mouse_pos_y' = FAKE_MOUSE_RES_Y \div 2
  /\ pc' = [pc EXCEPT ![p] = "user"]
  /\ returned' = <<>>
  /\ StoreOnly
  /\ UNCHANGED <<file, listed, fake_mouse_pos_x, x_pos, y_pos, temp_y, placed, torn>>

\* mouse_write: a char becomes a uint16_t; a position off the screen is
\* refused.  fake_mouse_pos stays: the next packet moves from there.
MouseWrite(p, fd, at) ==
  /\ Calls(p)
  /\ Has(p, fd, "mouse")
  /\ UInt16(at[1]) < NUM_COLS /\ UInt16(at[2]) < NUM_ROWS
  /\ x_pos' = UInt16(at[1])
  /\ temp_y' = [temp_y EXCEPT ![p] = UInt16(at[2])]
  /\ placed' = TRUE
  /\ pc' = [pc EXCEPT ![p] = "place_y"]
  /\ returned' = <<>>
  /\ StoreOnly
  /\ UNCHANGED <<file, listed, fake_mouse_pos_x, fake_mouse_pos_y, y_pos, torn>>

PlaceY(p) ==
  /\ pc[p] = "place_y"
  /\ y_pos' = temp_y[p]
  /\ temp_y' = [temp_y EXCEPT ![p] = 0]
  /\ placed' = TRUE
  /\ pc' = [pc EXCEPT ![p] = "user"]
  /\ returned' = <<>>
  /\ StoreOnly
  /\ UNCHANGED <<file, listed, fake_mouse_pos_x, fake_mouse_pos_y, x_pos, torn>>

MouseCall(p) == CentreY(p) \/ CentreFakeX(p) \/ CentreFakeY(p) \/ PlaceY(p)

MouseStep(p) ==
  \/ OpenMouse(p)
  \/ MouseCall(p)
  \/ \E fd \in Fds : \E at \in Placements : MouseWrite(p, fd, at)
=============================================================================
