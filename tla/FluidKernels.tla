---------------------------- MODULE FluidKernels ----------------------------
(***************************************************************************)
(* The row functions of fluid/*.c, as far as the scheduler is concerned.   *)
(* A task runs one of them on row y of the field; what matters is which    *)
(* rows of which fields that call reads and writes.  A function is         *)
(* modelled by its footprint: for every row y, the cells <<field, row>> it *)
(* reads and those it writes.  The arithmetic on the pixels of a row is    *)
(* left out; every column of a row is taken together.  Of the builds of a  *)
(* function the footprint is that of the SSE and plain C branches, the     *)
(* only ones a build with Grand Central Dispatch can take.                 *)
(***************************************************************************)
EXTENDS FluidField

CONSTANTS AdvectDist,   \* ADVECT_DIST (fluid_cpu.h:12)
          OutRows       \* height of a scaled velocity output

ASSUME KernelAssumption ==
    /\ AdvectDist \in Nat
    /\ OutRows \in 1 .. Rows

\* Row y of the field f, if the field has it.
Row(f, y) == IF y \in RowSet THEN {<<f, y>>} ELSE {}
\* The rows a .. b of f.
Band(f, a, b) == {<<f, y>> : y \in {r \in RowSet : a <= r /\ r <= b}}
\* Row y of each of two fields.
Both(f, g, y) == Row(f, y) \cup Row(g, y)

Edge(y) == y = 0 \/ y = Rows - 1
\* The neighbour an edge row is copied from.
Inner(y) == IF y = 0 THEN 1 ELSE y - 1

Touch(reads, writes) == [reads |-> reads, writes |-> writes]
-----------------------------------------------------------------------------
(* Input and output. *)

fluid_input_char2dens(density, in_ch) ==
    [y \in RowSet |-> Touch(Both(density, in_ch, y), Row(density, y))]

\* in_ch has another height: some row of it is read (no task writes it).
fluid_input_char2dens_scale(density, in_ch) ==
    [y \in RowSet |-> Touch(Row(density, y) \cup Band(in_ch, 0, Rows - 1), Row(density, y))]

fluid_input_float2vel(velX, velY, velIn) ==
    [y \in RowSet |-> Touch(Both(velX, velY, y) \cup Row(velIn, y), Both(velX, velY, y))]

fluid_input_float2vel_scale(velX, velY, velIn) ==
    [y \in RowSet |->
       Touch(Both(velX, velY, y) \cup Band(velIn, 0, Rows - 1), Both(velX, velY, y))]

fluid_input_vel2float(velX, velY, velOut) ==
    [y \in RowSet |-> Touch(Both(velX, velY, y), Row(velOut, y))]

\* Row y of the smaller output shows row y2 of the field.
fluid_input_vel2float_scale(velX, velY, velOut) ==
    [y \in RowSet |->
       LET y2 == (y * Rows) \div OutRows IN
       IF y2 >= Rows THEN Touch({}, {})
       ELSE Touch(Both(velX, velY, y2), Row(velOut, y))]

fluid_video_temp2char(density, out) ==
    [y \in RowSet |-> Touch(Row(density, y), Row(out, y))]

fluid_video_dens2char_x(density, pressure, velX, velY, out) ==
    [y \in RowSet |->
       Touch(Both(density, pressure, y) \cup Both(velX, velY, y), Row(out, y))]
-----------------------------------------------------------------------------
(* Forces. *)

\* On the first and on the last row the velocity is read without "y*sy", that
\* is, from row 0 (fluid_vorticity.c:92-93).
fluid_vorticity_curl(velX, velY, z) ==
    [y \in RowSet |->
       IF Edge(y) THEN Touch(Row(velY, 0), Row(z, y))
       ELSE Touch(Row(velY, y) \cup Row(velX, y - 1) \cup Row(velX, y + 1), Row(z, y))]

fluid_vorticity_apply(velX, velY, z) ==
    [y \in RowSet |->
       IF Edge(y) THEN Touch({}, {})
       ELSE Touch(Both(velX, velY, y) \cup Band(z, y - 1, y + 1), Both(velX, velY, y))]

fluid_dampen(f) ==
    [y \in RowSet |-> Touch(Row(f, y), Row(f, y))]

fluid_force_heat(density, velX, velY) ==
    [y \in RowSet |-> Touch(Row(density, y) \cup Both(velX, velY, y), Both(velX, velY, y))]
-----------------------------------------------------------------------------
(* Relaxations: in place, on the row and its two neighbours. *)

fluid_viscosity(velX, velY) ==
    [y \in RowSet |->
       IF Edge(y) THEN Touch(Both(velX, velY, Inner(y)), Both(velX, velY, y))
       ELSE Touch(Band(velX, y - 1, y + 1) \cup Band(velY, y - 1, y + 1),
                  Both(velX, velY, y))]

fluid_genPressure(velX, velY, pressure) ==
    [y \in RowSet |->
       IF Edge(y) THEN Touch(Row(pressure, Inner(y)), Row(pressure, y))
       ELSE Touch(Band(pressure, y - 1, y + 1) \cup Row(velX, y)
                    \cup Row(velY, y - 1) \cup Row(velY, y + 1),
                  Row(pressure, y))]

fluid_genPressure_dens(velX, velY, pressure, density) ==
    [y \in RowSet |->
       IF Edge(y) THEN Touch(Row(pressure, Inner(y)), Row(pressure, y))
       ELSE Touch(Band(pressure, y - 1, y + 1) \cup Both(velX, density, y)
                    \cup Row(velY, y - 1) \cup Row(velY, y + 1),
                  Row(pressure, y))]

fluid_genPressure_densfix(density) ==
    [y \in RowSet |-> Touch(Row(density, y), Row(density, y))]

fluid_applyPressure(velX, velY, pressure) ==
    [y \in RowSet |->
       IF Edge(y) THEN Touch({}, {})
       ELSE Touch(Both(velX, velY, y) \cup Band(pressure, y - 1, y + 1),
                  Both(velX, velY, y))]
-----------------------------------------------------------------------------
(* Advection.  A position is at most AdvectDist rows away and clamped to the *)
(* field; bilinear interpolation also reads the row after the one it is in.  *)

Reach(f, y) == Band(f, y - AdvectDist, y + AdvectDist + 1)

fluid_advection_mccormack_repos(velX, velY, reposX, reposY) ==
    [y \in RowSet |-> Touch(Reach(velX, y) \cup Reach(velY, y), Both(reposX, reposY, y))]

fluid_repos(reposX, reposY, src, dst) ==
    [y \in RowSet |-> Touch(Both(reposX, reposY, y) \cup Reach(src, y), Row(dst, y))]

fluid_reposVel(reposX, reposY, src, src2, dst, dst2) ==
    [y \in RowSet |->
       Touch(Both(reposX, reposY, y) \cup Reach(src, y) \cup Reach(src2, y),
             Both(dst, dst2, y))]
=============================================================================
