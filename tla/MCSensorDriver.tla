---------------------------- MODULE MCSensorDriver ----------------------------
(* All the drivers of the locator, one at a time.                           *)
EXTENDS SensorDriver

AllKinds ==
    {"HDC1080", "CCS811", "MAX44009", "SI1145", "ADXL345", "BMP280", "LSM303A", "LSM303M",
     "MAX30102", "ADC"}
================================================================================
