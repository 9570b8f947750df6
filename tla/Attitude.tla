------------------------------ MODULE Attitude ------------------------------
(***************************************************************************)
(* The quaternions, mounting orientations and angles of mllite             *)
(* (ml_math_func.c, results_holder.c, hal_outputs.c) and the orientation   *)
(* tables the driver writes to the DMP (inv_mpu_misc.c).  A body is turned *)
(* in steps; the library's quaternion of its attitude is followed next to  *)
(* the rotation matrix, the textbook definition of the same turns.  The    *)
(* turns are those that take the axes to the axes, whose quaternions are   *)
(* exact in a few fraction bits.                                           *)
(***************************************************************************)
EXTENDS FixedPoint, Sequences

CONSTANTS HalfTurn,      \* pi, in the unit angles are counted in
          Turns          \* the changes of heading considered
ASSUME AngleAssumption == HalfTurn \in Nat \ {0} /\ Turns \subseteq -HalfTurn..HalfTurn

VARIABLES attitude,      \* the attitude as a quaternion <<w, x, y, z>>
          matrix,        \* the same attitude as a matrix of 0, 1 and -1, by rows
          heading        \* an angle kept by adding differences

attitudeVars == <<attitude, matrix, heading>>
Axes == 1..3
(* ------------------------------ quaternions ---------------------------- *)
QMultSwapped(p, q) ==
    LET m(i, j) == Q30Mult(p[i], q[j])
    IN  << m(1, 1) - m(2, 2) - m(3, 3) - m(4, 4),
           m(1, 2) + m(2, 1) + m(3, 4) - m(4, 3),
           m(1, 3) + m(2, 4) + m(3, 1) - m(4, 2),
           m(1, 4) + m(2, 3) - m(3, 2) + m(4, 1) >>
(* inv_q_mult *)
QMult(p, q) ==
    LET m(i, j) == Q30Mult(p[i], q[j])
    IN  << m(1, 1) - m(2, 2) - m(3, 3) - m(4, 4),
           m(1, 2) + m(2, 1) + m(3, 4) - m(4, 3),
           m(1, 3) - m(2, 4) + m(3, 1) + m(4, 2),
           m(1, 4) + m(2, 3) - m(3, 2) + m(4, 1) >>
QInvert(q) == <<q[1], -q[2], -q[3], -q[4]>>
QAdd(p, q) == [i \in 1..4 |-> p[i] + q[i]]
(* inv_q_rotate: the vector part of q v q'. *)
QRotate(q, v) == Tail(QMult(QMult(q, <<0>> \o v), QInvert(q)))
(* inv_quaternion_to_rotation: the matrix of a quaternion, by rows. *)
ToRotation(q) ==
    LET m(i, j) == Q29Mult(q[i + 1], q[j + 1])
        d(i) == m(i, i) + m(0, 0) - One
    IN  << <<d(1), m(1, 2) - m(3, 0), m(1, 3) + m(2, 0)>>,
           <<m(1, 2) + m(3, 0), d(2), m(2, 3) - m(1, 0)>>,
           <<m(1, 3) - m(2, 0), m(2, 3) + m(1, 0), d(3)>> >>
RotationVectorKept(q) == Tail(q)
(* inv_quaternion_to_rotation_vector, and the outputs of the rotation
   vector sensors: of q and -q the one whose real part is not negative. *)
RotationVector(q) == LET v == Tail(q) IN IF q[1] < 0 THEN [i \in Axes |-> -v[i]] ELSE v
RotationVectorOutput(q) == RotationVector(q) \o <<IF q[1] < 0 THEN -q[1] ELSE q[1]>>
(* inv_get_gravity and inv_get_gravity_6x *)
Gravity(q) == LET m(i, j) == Q29Mult(q[i + 1], q[j + 1])
              IN  <<m(1, 3) - m(2, 0), m(2, 3) + m(1, 0), m(3, 3) + m(0, 0) - One>>
(* inv_get_linear_accel: what is left of the acceleration without gravity,
   both with one g being One >> 14. *)
LinearAccel(accel, q) == [i \in Axes |-> accel[i] - Gravity(q)[i]]
(* ------------------------- matrices and orientations ------------------- *)
(* inv_matrix_vector_mult takes the matrix by rows, mlMatrixVectorMult by
   columns. *)
MatrixVector(a, v) == [i \in Axes |-> Q30Mult(a[i][1], v[1]) + Q30Mult(a[i][2], v[2]) + Q30Mult(a[i][3], v[3])]
MlMatrixVector(a, v) == [i \in Axes |-> Q30Mult(a[1][i], v[1]) + Q30Mult(a[2][i], v[2]) + Q30Mult(a[3][i], v[3])]

Row2ScaleUnsigned(row) == (CHOOSE c \in Axes : row[c] # 0) - 1
(* inv_row_2_scale, inv_orientation_matrix_to_scalar: the column of a row's
   entry with 4 added for a minus; 7 for a row of zeros. *)
Row2Scale(row) ==
    LET filled == {c \in Axes : row[c] # 0}
    IN  IF filled = {} THEN 7
        ELSE LET c == CHOOSE c \in filled : \A d \in filled : c <= d
             IN  (c - 1) + IF row[c] < 0 THEN 4 ELSE 0
MatrixToScalar(m) == Row2Scale(m[1]) + 8 * Row2Scale(m[2]) + 64 * Row2Scale(m[3])
Column(o, r) == ((o \div 8 ^ (r - 1)) % 4) + 1
Sign(o, r) == IF (o \div (4 * 8 ^ (r - 1))) % 2 = 1 THEN -1 ELSE 1
(* inv_convert_to_body, _to_chip and _to_body_with_scale *)
ConvertToBody(o, v) == [r \in Axes |-> v[Column(o, r)] * Sign(o, r)]
ConvertToChip(o, v) == [c \in Axes |-> LET r == CHOOSE r \in Axes : Column(o, r) = c
                                       IN  v[r] * Sign(o, r)]
ConvertToBodyWithScale(o, scale, v) == [r \in Axes |-> Q30Mult(ConvertToBody(o, v)[r], scale)]
(* set_sensor_orientation_and_scale: an impossible orientation (a row of
   zeros) is replaced by the identity, a sensitivity of zero by 1 << 16. *)
IdentityScalar == 136
KeptOrientation(o) == IF \E r \in Axes : Column(o, r) = 4 THEN IdentityScalar ELSE o
KeptSensitivity(k) == IF k = 0 THEN One \div 4 ELSE k

(* inv_gyro_dmp_cal, inv_accel_dmp_cal: for each row a code of the column
   and a code with the sign in its lowest bit. *)
GyroDmpCal(o) == [axis |-> [r \in Axes |-> <<"DINA4C", "DINACD", "DINA6C">>[Column(o, r)]],
                  sign |-> [r \in Axes |-> <<<<"DINA36", "DINA56", "DINA76">>[r], Sign(o, r) = -1>>]]
AccelDmpCal(o) == [axis |-> [r \in Axes |-> <<"DINA0C", "DINAC9", "DINA2C">>[Column(o, r)]],
                   sign |-> [r \in Axes |-> <<<<"DINA26", "DINA46", "DINA66">>[r], Sign(o, r) = -1>>]]
AccelBiasUnscaled(o, bias) == [r \in Axes |-> bias[Column(o, r)] * Sign(o, r)]
(* inv_set_accel_bias_dmp of the driver and inv_get_accel_bias_dmp_units of
   the library: a bias in body frame and the DMP's unit (0.5 in Q30). *)
AccelBiasDmp(o, bias) == [r \in Axes |-> Q30Mult(OneHalf, bias[Column(o, r)] * Sign(o, r))]
AccelBiasDmpUnits(o, bias) == ConvertToBodyWithScale(o, OneHalf, bias)
(* -------------------------------- angles ------------------------------- *)
WrapAngleInclusive(a) == IF a >= HalfTurn THEN a - 2 * HalfTurn
                         ELSE IF a <= -HalfTurn THEN a + 2 * HalfTurn
                         ELSE a
(* inv_wrap_angle, inv_angle_diff *)
WrapAngle(a) == IF a > HalfTurn THEN a - 2 * HalfTurn
                ELSE IF a <= -HalfTurn THEN a + 2 * HalfTurn
                ELSE a
AngleDiff(a, b) ==
    LET d == WrapAngle(a) - WrapAngle(b)
    IN  IF d > HalfTurn THEN d - 2 * HalfTurn
        ELSE IF d < -HalfTurn THEN d + 2 * HalfTurn
        ELSE d
-----------------------------------------------------------------------------
Identity == <<One, 0, 0, 0>>
(* A turn: its quaternion and its matrix.  These two, a half turn about x
   and a third of a turn about the diagonal, generate the attitudes that
   take axes to axes without swapping two. *)
Steps == { [q |-> <<0, One, 0, 0>>,
            m |-> << <<1, 0, 0>>, <<0, -1, 0>>, <<0, 0, -1>> >>],
           [q |-> <<OneHalf, OneHalf, OneHalf, OneHalf>>,
            m |-> << <<0, 0, 1>>, <<1, 0, 0>>, <<0, 1, 0>> >>] }
MatrixMult(a, b) == [i \in Axes |-> [j \in Axes |->
                        a[i][1] * b[1][j] + a[i][2] * b[2][j] + a[i][3] * b[3][j]]]

AttitudeInit == /\ attitude = Identity
                /\ matrix = << <<1, 0, 0>>, <<0, 1, 0>>, <<0, 0, 1>> >>
                /\ heading = 0
Turn == \E s \in Steps : /\ attitude' = QMult(attitude, s.q)
                         /\ matrix' = MatrixMult(matrix, s.m)
                         /\ UNCHANGED heading
Steer == \E d \in Turns : /\ heading' = WrapAngle(heading + d)
                          /\ UNCHANGED <<attitude, matrix>>
AttitudeNext == Turn \/ Steer
AttitudeSpec == AttitudeInit /\ arg = 1 /\ [][AttitudeNext /\ UNCHANGED arg]_<<attitudeVars, arg>>
-----------------------------------------------------------------------------
Probe == <<One, 2 * One, -3 * One>>
Turned == [i \in Axes |-> matrix[i][1] * Probe[1] + matrix[i][2] * Probe[2] + matrix[i][3] * Probe[3]]
Transposed == [i \in Axes |-> matrix[1][i] * Probe[1] + matrix[2][i] * Probe[2] + matrix[3][i] * Probe[3]]

(* However the body was turned, the quaternion describes the same attitude as
   the matrix: it rotates vectors alike, converts to that matrix, and its
   inverse turns back (inv_q_mult, inv_q_rotate, inv_quaternion_to_rotation
   and the two matrix products, one of which takes columns for rows). *)
QuaternionTurnsLikeMatrix ==
    /\ QRotate(attitude, Probe) = Turned
    /\ ToRotation(attitude) = [i \in Axes |-> [j \in Axes |-> matrix[i][j] * One]]
    /\ MatrixVector(ToRotation(attitude), Probe) = Turned
    /\ MlMatrixVector(ToRotation(attitude), Probe) = Transposed
    /\ QRotate(QInvert(attitude), Turned) = Probe
    /\ QMult(attitude, QInvert(attitude)) = Identity

(* Gravity is where the world's vertical is seen from the body, so a body at
   rest has no linear acceleration in any attitude, and the quaternion
   -q of the same attitude gives the same outputs (inv_get_gravity,
   inv_get_linear_accel, the rotation vector outputs). *)
RestHasNoLinearAccel ==
    LET minus == [i \in 1..4 |-> -attitude[i]]
    IN  /\ LinearAccel([i \in Axes |-> matrix[3][i] * One], attitude) = <<0, 0, 0>>
        /\ Gravity(minus) = Gravity(attitude)
        /\ attitude[1] # 0 => RotationVectorOutput(minus) = RotationVectorOutput(attitude)
        /\ attitude[1] >= 0 => WithScalarPart(RotationVector(attitude)) = attitude

(* A mounting matrix packed into a scalar turns chip axes to body axes as the
   matrix does, is kept as a possible one, and is undone by the conversion
   back to the chip (inv_orientation_matrix_to_scalar, inv_convert_to_body). *)
ScalarTurnsLikeMatrix ==
    LET o == MatrixToScalar(matrix)
    IN  /\ KeptOrientation(o) = o
        /\ ConvertToBody(o, Probe) = Turned
        /\ ConvertToChip(o, Turned) = Probe
        /\ ConvertToBodyWithScale(o, One, Probe) = Turned

(* The driver and the library hand the DMP the same bias for one mounting,
   and no two mountings get the same DMP tables (inv_set_accel_bias_dmp,
   inv_get_accel_bias_dmp_units, inv_gyro_dmp_cal, inv_accel_dmp_cal). *)
DriverAgreesWithLibrary ==
    LET o == MatrixToScalar(matrix)
    IN  /\ AccelBiasDmp(o, Probe) = AccelBiasDmpUnits(o, Probe)
        /\ [r \in Axes |-> 2 * AccelBiasDmp(o, Probe)[r]] = Turned
        /\ \A s \in Steps :
              LET p == MatrixToScalar(MatrixMult(matrix, s.m))
              IN  GyroDmpCal(p) # GyroDmpCal(o) /\ AccelDmpCal(p) # AccelDmpCal(o)

(* Differences and sums of headings stay within half a turn and change an
   angle by whole turns only: a heading followed by adding differences
   never drifts from the one they were taken of (inv_wrap_angle,
   inv_angle_diff). *)
HeadingFollows ==
    /\ heading \in (1 - HalfTurn)..HalfTurn
    /\ \A target \in (1 - HalfTurn)..HalfTurn :
          LET d == AngleDiff(target, heading)
          IN  d \in -HalfTurn..HalfTurn /\ WrapAngle(heading + d) = target

(* Quaternions, matrices, the packed orientation of the driver and the heading
   agree on what a turn of the body is. *)
ConventionsAgree ==
    /\ QuaternionTurnsLikeMatrix /\ RestHasNoLinearAccel /\ ScalarTurnsLikeMatrix
    /\ DriverAgreesWithLibrary /\ HeadingFollows
=============================================================================
