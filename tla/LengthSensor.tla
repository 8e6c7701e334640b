------------------------------ MODULE LengthSensor ------------------------------
(***************************************************************************)
(* The water level of length_sensor.cpp in its three variants, of which a  *)
(* build uses one, and TA_Run of test_adc.cpp, which takes it over for     *)
(* MB_Slave_Run.  A length is an integer: SAMPLE times tenths of a         *)
(* millimetre, so that an average of SAMPLE readings has no rest.  What    *)
(* the library's Kalman filter makes of a reading is external: something   *)
(* between its last estimate and the reading.                              *)
(***************************************************************************)
EXTENDS Integers

CONSTANTS Readings,  \* what analogRead gives
          SAMPLE,    \* readings of an average: 60
          TestTimes, \* calls of LengthSensor_Test for a reading: 10
          TakeOver   \* passes until TA_Run takes a length over: 1000

ASSUME LengthSensorAssumption ==
    /\ Readings \subseteq 0..4095
    /\ {SAMPLE, TestTimes, TakeOver} \subseteq Nat \ {0} /\ SAMPLE < 256

VARIABLES variant,        \* "kalman", "average" or "test"
          adc_kalman, adc_sum, sample_count, time_count, adc_average,
          average_length, \* the last length
          count_adc, sensor_calib,
          \* history: lowest and highest of the readings in adc_sum, and of those
          \* that average_length is made of
          window, of

lengthVars == <<variant, adc_kalman, adc_sum, sample_count, time_count, adc_average,
                average_length, count_adc, sensor_calib, window, of>>

(* The lines that the sensor was measured to follow: of an estimate, and of *)
(* a sum of SAMPLE readings.                                                *)
KalmanLength(adc) ==
    SAMPLE * IF adc < 2086 THEN 357430 + 7200 - 106 * adc ELSE 388720 + 7200 - 121 * adc
AverageLength(sum) ==
    IF sum < 2049 * SAMPLE THEN SAMPLE * 357670 - 106 * sum
                           ELSE SAMPLE * 388400 - 121 * sum
TestLength(sum) == SAMPLE * 365680 - 113 * sum

Empty == [low |-> 4095, high |-> 0]
With(w, adc) == [low |-> IF adc < w.low THEN adc ELSE w.low,
                 high |-> IF adc > w.high THEN adc ELSE w.high]

LengthInit ==
    /\ variant \in {"kalman", "average", "test"}
    /\ adc_kalman = 0 /\ adc_sum = 0 /\ sample_count = 0 /\ time_count = 0
    /\ adc_average = 0 /\ average_length = 0 /\ count_adc = 0 /\ sensor_calib = 0
    /\ window = Empty /\ of = Empty

(* LengthSensor_KalmanFilter_Read, when it is due; the filter begins at 0.  *)
KalmanFilterRead ==
    /\ variant = "kalman"
    /\ \E adc \in Readings, estimate \in Readings :
        /\ \/ adc_kalman <= estimate /\ estimate <= adc
           \/ adc <= estimate /\ estimate <= adc_kalman
        /\ adc_kalman' = estimate /\ average_length' = KalmanLength(estimate)
        /\ of' = [With(of, adc) EXCEPT !.low = 0]
    /\ UNCHANGED <<adc_sum, sample_count, time_count, adc_average, window>>

Add(adc) ==
    /\ adc_sum' = adc_sum + adc /\ sample_count' = sample_count + 1
    /\ window' = With(window, adc)

(* Slip: the sum of the last average stays.                                 *)
ClearCountOnly == adc_sum' = adc_sum /\ sample_count' = 0 /\ window' = Empty
Clear == adc_sum' = 0 /\ sample_count' = 0 /\ window' = Empty

(* LengthSensor_Average_Read, when it is due: SAMPLE times a reading, and   *)
(* then their average instead of one.                                       *)
AverageRead ==
    /\ variant = "average"
    /\ \/ /\ sample_count < SAMPLE /\ \E adc \in Readings : Add(adc)
          /\ UNCHANGED <<adc_average, average_length, of>>
       \/ /\ sample_count >= SAMPLE /\ Clear
          /\ adc_average' = adc_sum /\ average_length' = AverageLength(adc_sum)
          /\ of' = window
    /\ UNCHANGED <<adc_kalman, time_count>>

(* LengthSensor_Test: every TestTimes-th call counts.                       *)
Test ==
    /\ variant = "test" /\ time_count' = (time_count + 1) % TestTimes
    /\ \/ time_count' # 0
          /\ UNCHANGED <<adc_sum, sample_count, adc_average, window, of>>
       \/ /\ time_count' = 0 /\ sample_count < SAMPLE /\ \E adc \in Readings : Add(adc)
          /\ UNCHANGED <<adc_average, of>>
       \/ /\ time_count' = 0 /\ sample_count >= SAMPLE /\ Clear
          /\ adc_average' = adc_sum /\ of' = window
    /\ average_length' = TestLength(adc_average')
    /\ UNCHANGED adc_kalman

(* TA_Run, after the reading.                                               *)
TA_Run ==
    /\ count_adc' = (count_adc + 1) % TakeOver
    /\ sensor_calib' = IF count_adc' = 0 THEN average_length ELSE sensor_calib
    /\ UNCHANGED <<adc_kalman, adc_sum, sample_count, time_count, adc_average,
                   average_length, window, of>>

LengthNext == /\ UNCHANGED variant
              /\ \/ TA_Run
                 \/ /\ KalmanFilterRead \/ AverageRead \/ Test
                    /\ UNCHANGED <<count_adc, sensor_calib>>

LengthSpec == LengthInit /\ [][LengthNext]_lengthVars

(* A length is no longer than the one of the lowest reading that it is made *)
(* of and no shorter than the one of the highest: none is counted twice or  *)
(* for another average, and the two lines of a variant never turn the order *)
(* of two readings round, not even where they meet.                         *)
LengthIsOfItsReadings ==
    of # Empty =>
        LET Length(adc) == CASE variant = "kalman" -> KalmanLength(adc)
                             [] variant = "average" -> AverageLength(SAMPLE * adc)
                             [] variant = "test" -> TestLength(SAMPLE * adc)
        IN Length(of.high) <= average_length /\ average_length <= Length(of.low)
================================================================================
